---- MODULE Spec2Model ----
(***************************************************************************)
(* Quantum Fragility Playground: the discrete experiment simulators        *)
(* (server/quantumSim.ts), the noise-channel steppers and the two          *)
(* useTimeEvolution hooks (hooks/useBlochState.ts, the requestAnimation-   *)
(* Frame hook; unnamed/part_005, the setInterval hook).                    *)
(***************************************************************************)
EXTENDS Integers, Sequences, FiniteSets, TLC

VARIABLES
    \* ---- server/quantumSim.ts: one call of simulateBell / simulateGhz / runBb84
    fn,         \* the function being executed
    pc,         \* "loop" while the for-loop runs, "done" once it has returned
    n,          \* the argument: shots (Bell, GHZ) or rounds (BB84)
    withEve,    \* Bb84RunConfig.withEve
    i,          \* the loop index
    counts,     \* the count map of simulateBell / simulateGhz
    sifted,     \* runBb84: let sifted
    errors,     \* runBb84: let errors
    trace,      \* runBb84: const trace
    played,     \* history variable: the row of every round executed so far
    result,     \* the returned value ([kind |-> "none"] until the call returns)
    req,        \* the HTTP request being served ([route |-> "none"]: a direct call)
    res,        \* the HTTP response: status 0 while the handler runs, then 400 / 200
    \* ---- useTimeEvolution (hooks/useBlochState.ts and unnamed/part_005)
    hook,       \* "raf": hooks/useBlochState.ts; "interval": unnamed/part_005
    state,      \* the current Bloch vector (stateRef.current / state)
    history,    \* the history buffer (historyRef.current / history)
    running,    \* the running flag
    noise,      \* the NoiseParams the stepper reads (noiseRef.current / noise)
    lastTs,     \* raf hook: lastTsRef.current, in ms (0: unset)
    raf,        \* raf hook: a frame callback is requested (rafRef.current != null)
    now,        \* wall clock, in ms
    calls,      \* history variable: stepper calls made so far
    op,         \* history variable: the last operation performed
    resetAt,    \* history variable: time of a resetTo made while running that no
                \* tick has followed yet (-1: none)
    log,        \* history variable: every snapshot put in the history since it was
                \* last replaced wholesale
    \* ---- the circuit pages (GateBuilder, QiskitVisualizer, QasmVisualizer)
    viz,        \* "builder", "json" or "qasm"
    src,        \* the text of the editor (json, qasm)
    circuit,    \* the gate list: circuit (builder), config.gates (json), gates (qasm)
    stepIdx,    \* stepIdx (json, qasm) / activeStep (builder)
    gateNoise,  \* gateNoise (builder, json)
    initPreset, \* builder: the initial vector PRESET_VECTORS[initPreset]
    errMsg,     \* the parse error shown ("" when none)
    vec,        \* the displayed Bloch vector (currentState / vec)
    play,       \* builder: isPlaying and the for loop of playCircuit
    \* ---- the HTTP connections of the server (several clients)
    net         \* requests waiting for the event loop, requests sent, responses

simVars ==
    <<fn, pc, n, withEve, i, counts, sifted, errors, trace, played, result, req, res, net>>

evoVars ==
    <<hook, state, history, running, noise, lastTs, raf, now, calls, op, resetAt, log>>

vizVars == <<viz, src, circuit, stepIdx, gateNoise, initPreset, errMsg, vec, play>>

vars == <<simVars, evoVars, vizVars>>

(***************************************************************************)
(* Bounds of the model                                                     *)
(***************************************************************************)
MaxShots == 6
MaxRounds == 3


(***************************************************************************)
(* Numbers. A JavaScript number is modelled in fixed point: the integer k  *)
(* stands for k / Scale, and every product and quotient rounds to the      *)
(* nearest unit, as a floating-point operation rounds to the nearest       *)
(* representable value.                                                    *)
(***************************************************************************)
Scale == 1000

\* a / d rounded to the nearest integer (halves away from zero), d > 0
RoundDiv(a, d) ==
    IF a >= 0 THEN (2 * a + d) \div (2 * d) ELSE -((d - 2 * a) \div (2 * d))

\* a * b
Mul(a, b) == RoundDiv(a * b, Scale)

\* a / b
Div(a, b) == RoundDiv(a * Scale, b)

Max(a, b) == IF a >= b THEN a ELSE b
Min(a, b) == IF a <= b THEN a ELSE b

\* Math.sqrt of an integer m: the nearest integer to its square root
RECURSIVE Newton(_, _)
Newton(m, r) ==
    LET next == (r + m \div r) \div 2
    IN IF next >= r THEN r ELSE Newton(m, next)

Sqrt(m) ==
    IF m <= 0 THEN 0
    ELSE LET r == Newton(m, m) IN IF m - r * r > r THEN r + 1 ELSE r

\* Math.exp, Math.cos and Math.sin are computed by their power series with
\* guard digits (in units of 1 / Fine) and then rounded to the nearest unit,
\* as the library functions return the nearest representable value.
Fine == 16 * Scale

\* e^q for q >= 0, in units of 1 / Fine: term is the last term added, k the
\* index of the next one
RECURSIVE ExpSeries(_, _, _, _)
ExpSeries(q, k, term, acc) ==
    IF term = 0 \/ k > 16 THEN acc
    ELSE LET t == RoundDiv(term * q, k * Fine)
         IN ExpSeries(q, k + 1, t, acc + t)

\* Math.exp(-q) for q >= 0
ExpNeg(q) ==
    RoundDiv(RoundDiv(Fine * Fine, ExpSeries(q * (Fine \div Scale), 1, Fine, Fine)),
             Fine \div Scale)

RECURSIVE TrigSeries(_, _, _, _)
TrigSeries(theta, k, term, acc) ==
    IF term = 0 \/ k > 17 THEN acc
    ELSE LET t == -RoundDiv(RoundDiv(term * theta, Fine) * theta, Fine * k * (k - 1))
         IN TrigSeries(theta, k + 2, t, acc + t)

\* Math.cos(theta), Math.sin(theta)
Cos(theta) ==
    RoundDiv(TrigSeries(theta * (Fine \div Scale), 2, Fine, Fine), Fine \div Scale)

Sin(theta) ==
    RoundDiv(TrigSeries(theta * (Fine \div Scale), 3, theta * (Fine \div Scale),
                        theta * (Fine \div Scale)), Fine \div Scale)

(***************************************************************************)
(* Bloch vectors and noise parameters (types/quantum.ts)                   *)
(***************************************************************************)
Vec(x, y, z) == [x |-> x, y |-> y, z |-> z]

\* x*x + y*y + z*z, in units of 1 / Scale^2
Len2(v) == v.x * v.x + v.y * v.y + v.z * v.z

Noise(dep, pf, bf, amp, speed) ==
    [depolarizing |-> dep, phaseFlip |-> pf, bitFlip |-> bf,
     amplitudeDamping |-> amp, speed |-> speed]

PRESET_VECTORS ==
    {Vec(0, 0, Scale), Vec(0, 0, -Scale), Vec(Scale, 0, 0), Vec(-Scale, 0, 0)}

(***************************************************************************)
(* hooks/useBlochState.ts: applyNoiseStep                                  *)
(***************************************************************************)
BASE_DT == Scale \div 100

\* noise.speed || 1
SpeedOr1(speed) == IF speed = 0 THEN Scale ELSE speed

\* 0. Larmor precession around Z
PrecessBug(v, rateMultiplier, dt) ==
    LET theta == Mul(5 * rateMultiplier, dt)
    IN Vec(Mul(v.x, Cos(theta)) - Mul(v.y, Sin(theta)), Mul(v.y, Cos(theta)), v.z)

Precess(v, rateMultiplier, dt) ==
    LET omega == 5 * rateMultiplier
        theta == Mul(omega, dt)
        cosT == Cos(theta)
        sinT == Sin(theta)
    IN Vec(Mul(v.x, cosT) - Mul(v.y, sinT), Mul(v.x, sinT) + Mul(v.y, cosT), v.z)

\* 1. Depolarizing
DepolarizeBug(v, p, rateMultiplier, dt) ==
    IF p > 0
    THEN LET factor == 2 * Scale - ExpNeg(Mul(Mul(p * 2, rateMultiplier), dt))
         IN Vec(Mul(v.x, factor), Mul(v.y, factor), Mul(v.z, factor))
    ELSE v

Depolarize(v, p, rateMultiplier, dt) ==
    IF p > 0
    THEN LET gammaDep == Mul(p * 2, rateMultiplier)
             factor == ExpNeg(Mul(gammaDep, dt))
         IN Vec(Mul(v.x, factor), Mul(v.y, factor), Mul(v.z, factor))
    ELSE v

\* 2. Amplitude damping (T1)
AmplitudeDamp(v, p, rateMultiplier, dt) ==
    IF p > 0
    THEN LET gamma1 == Mul(RoundDiv(p * 3, 2), rateMultiplier)
             factorXY == ExpNeg(RoundDiv(Mul(gamma1, dt), 2))
             factorZ == ExpNeg(Mul(gamma1, dt))
         IN Vec(Mul(v.x, factorXY), Mul(v.y, factorXY),
                Scale - Mul(Scale - v.z, factorZ))
    ELSE v

\* 3. Phase flip (dephasing)
PhaseDamp(v, p, rateMultiplier, dt) ==
    IF p > 0
    THEN LET gammaPhi == Mul(p * 3, rateMultiplier)
             factor == ExpNeg(Mul(gammaPhi, dt))
         IN Vec(Mul(v.x, factor), Mul(v.y, factor), v.z)
    ELSE v

\* 4. Bit flip
BitDamp(v, p, rateMultiplier, dt) ==
    IF p > 0
    THEN LET gammaX == Mul(p * 2, rateMultiplier)
             factor == ExpNeg(Mul(gammaX, dt))
         IN Vec(v.x, Mul(v.y, factor), Mul(v.z, factor))
    ELSE v

\* Safety clamp: if (r2 > 1.000001) { r = sqrt(r2); x /= r; y /= r; z /= r }
SafetyClampOff(v) == v

SafetyClamp(v) ==
    LET r2 == Len2(v)
    IN IF r2 > Scale * Scale + (Scale * Scale) \div 1000000
       THEN LET r == Sqrt(r2) IN Vec(Div(v.x, r), Div(v.y, r), Div(v.z, r))
       ELSE v

applyNoiseStep(v, ns, dt) ==
    LET rateMultiplier == SpeedOr1(ns.speed)
        v0 == Precess(v, rateMultiplier, dt)
        v1 == Depolarize(v0, ns.depolarizing, rateMultiplier, dt)
        v2 == AmplitudeDamp(v1, ns.amplitudeDamping, rateMultiplier, dt)
        v3 == PhaseDamp(v2, ns.phaseFlip, rateMultiplier, dt)
        v4 == BitDamp(v3, ns.bitFlip, rateMultiplier, dt)
    IN SafetyClamp(v4)

(***************************************************************************)
(* unnamed/part_005: evolve                                                *)
(***************************************************************************)
clamp(x, lo, hi) == Max(lo, Min(hi, x))

\* clamp(noise.speed || 1, 0.1, 10)
EvolveSpeed(ns) == clamp(SpeedOr1(ns.speed), Scale \div 10, 10 * Scale)

\* the thresholds the two Math.random() draws are compared with
BitFlipProb(ns) == Mul(Mul(ns.bitFlip, Scale \div 25), EvolveSpeed(ns))
PhaseFlipProb(ns) == Mul(Mul(ns.phaseFlip, Scale \div 25), EvolveSpeed(ns))

\* a draw of Math.random(), uniform in [0, 1), can fall below p iff p > 0 and
\* at or above p iff p < 1
CanDraw(below, p) == IF below THEN p > 0 ELSE p < Scale

\* if (L > 1) { x /= L; y /= L; z /= L }
Normalize(v) ==
    LET L == Sqrt(Len2(v))
    IN IF Len2(v) > Scale * Scale
       THEN Vec(Div(v.x, L), Div(v.y, L), Div(v.z, L))
       ELSE v

\* evolve(prev, noise); bitDraw / phaseDraw: the Math.random() draw fell below
\* its threshold
evolve(prev, ns, bitDraw, phaseDraw) ==
    LET speed == EvolveSpeed(ns)
        a == IF bitDraw THEN Vec(prev.x, -prev.y, -prev.z) ELSE prev
        b == IF phaseDraw THEN Vec(-a.x, -a.y, a.z) ELSE a
        dephase == clamp(Scale - Mul(Mul(ns.phaseFlip + ns.depolarizing, Scale \div 50), speed),
                         0, Scale)
        c == Vec(Mul(b.x, dephase), Mul(b.y, dephase), b.z)
        damp == clamp(Mul(Mul(ns.amplitudeDamping, Scale \div 50), speed), 0, Scale)
        shrink == Scale - Mul(damp, (Scale * 6) \div 10)
        d == Vec(Mul(c.x, shrink), Mul(c.y, shrink), Mul(c.z, Scale - damp) + damp)
        depFactor == clamp(Scale - Mul(Mul(ns.depolarizing, (Scale * 3) \div 100), speed),
                           0, Scale)
        e == Vec(Mul(d.x, depFactor), Mul(d.y, depFactor), Mul(d.z, depFactor))
    IN Normalize(e)


(***************************************************************************)
(* The parts of the state a specification does not use stay at rest.       *)
(***************************************************************************)
EvoIdle ==
    /\ hook = "none" /\ state = Vec(0, 0, 0) /\ history = <<>> /\ running = FALSE
    /\ noise = Noise(0, 0, 0, 0, 0) /\ lastTs = 0 /\ raf = FALSE /\ now = 0
    /\ calls = 0 /\ op = [name |-> "none"] /\ resetAt = -1 /\ log = <<>>

\* no client has connected
NoNet == [pending |-> {}, sent |-> {}, responses |-> {}]

SimIdle ==
    /\ fn = "none" /\ pc = "done" /\ n = 0 /\ withEve = FALSE /\ i = 0
    /\ counts = <<>> /\ sifted = 0 /\ errors = 0 /\ trace = <<>> /\ played = <<>>
    /\ result = [kind |-> "none"]
    /\ req = [route |-> "none"] /\ res = [status |-> 0]
    /\ net = NoNet

VizIdle ==
    /\ viz = "none" /\ src = <<>> /\ circuit = <<>> /\ stepIdx = 0 /\ gateNoise = 0
    /\ initPreset = "zero" /\ errMsg = "" /\ vec = Vec(0, 0, 0)
    /\ play = [isPlaying |-> FALSE, loop |-> FALSE, i |-> 0, length |-> 0]

(***************************************************************************)
(* The steppers as pure functions: consecutive calls on one vector         *)
(***************************************************************************)
MaxSteps == 12

StartVectors ==
    PRESET_VECTORS \cup
    {Vec(0, 0, 0), Vec(0, -Scale, 0), Vec((Scale * 6) \div 10, 0, (Scale * 8) \div 10),
     Vec(577, 577, 577), Vec(300, -400, -500)}

Strengths == {0, Scale}
Speeds == {0, Scale \div 2, Scale, 20 * Scale}

InitStepper ==
    /\ SimIdle
    /\ VizIdle
    /\ hook \in {"raf", "interval"}
    /\ state \in StartVectors
    /\ noise \in {Noise(d, p, b, a, s) : d \in Strengths, p \in Strengths,
                                         b \in Strengths, a \in Strengths, s \in Speeds}
    /\ history = <<state>>
    /\ running = FALSE /\ lastTs = 0 /\ raf = FALSE /\ now = 0
    /\ calls = 0 /\ op = [name |-> "init"] /\ resetAt = -1 /\ log = <<>>

StepRaf ==
    /\ hook = "raf" /\ calls < MaxSteps
    /\ state' = applyNoiseStep(state, noise, BASE_DT)
    /\ calls' = calls + 1
    /\ op' = [name |-> "step"]
    /\ UNCHANGED <<hook, history, running, noise, lastTs, raf, now, resetAt, log>>
    /\ UNCHANGED <<simVars, vizVars>>

StepInterval ==
    /\ hook = "interval" /\ calls < MaxSteps
    /\ \E bitDraw \in BOOLEAN, phaseDraw \in BOOLEAN :
          /\ CanDraw(bitDraw, BitFlipProb(noise))
          /\ CanDraw(phaseDraw, PhaseFlipProb(noise))
          /\ state' = evolve(state, noise, bitDraw, phaseDraw)
    /\ calls' = calls + 1
    /\ op' = [name |-> "step"]
    /\ UNCHANGED <<hook, history, running, noise, lastTs, raf, now, resetAt, log>>
    /\ UNCHANGED <<simVars, vizVars>>

NextStepper == StepRaf \/ StepInterval

SpecStepper == InitStepper /\ [][NextStepper]_vars

(***************************************************************************)
(* The steppers on IEEE-754 doubles: a number is finite (a fixed-point     *)
(* value as above), NaN or +-Infinity.  Finite operands are bounded, so a  *)
(* finite operation does not overflow.                                     *)
(***************************************************************************)
Finite(m) == [k |-> "finite", v |-> m]
NotANumber == [k |-> "NaN", v |-> 0]
Infinite(sign) == [k |-> "Infinity", v |-> sign]

IsNaN(a) == a.k = "NaN"
IsFinite(a) == a.k = "finite"
IsZero(a) == a.k = "finite" /\ a.v = 0
SignOf(a) == IF a.v < 0 THEN -1 ELSE 1

\* -a
fNeg(a) == [a EXCEPT !.v = -a.v]

\* a * b
fMul(a, b) ==
    IF IsFinite(a) /\ IsFinite(b) THEN Finite(Mul(a.v, b.v))
    ELSE IF IsNaN(a) \/ IsNaN(b) \/ IsZero(a) \/ IsZero(b) THEN NotANumber
    ELSE Infinite(SignOf(a) * SignOf(b))

\* a + b
fAdd(a, b) ==
    IF IsFinite(a) /\ IsFinite(b) THEN Finite(a.v + b.v)
    ELSE IF IsNaN(a) \/ IsNaN(b) THEN NotANumber
    ELSE IF IsFinite(a) THEN b
    ELSE IF IsFinite(b) THEN a
    ELSE IF a.v = b.v THEN a ELSE NotANumber

\* a - b
fSub(a, b) == fAdd(a, fNeg(b))

\* a / b
fDiv(a, b) ==
    IF IsNaN(a) \/ IsNaN(b) THEN NotANumber
    ELSE IF IsFinite(a) /\ IsFinite(b)
         THEN IF b.v # 0 THEN Finite(Div(a.v, b.v))
              ELSE IF a.v = 0 THEN NotANumber ELSE Infinite(SignOf(a))
    ELSE IF IsFinite(a) THEN Finite(0)
    ELSE IF IsFinite(b) THEN Infinite(SignOf(a) * SignOf(b))
    ELSE NotANumber

\* a > b: false when either is NaN
fGt(a, b) ==
    /\ ~IsNaN(a) /\ ~IsNaN(b)
    /\ IF IsFinite(a) /\ IsFinite(b) THEN a.v > b.v
       ELSE IF IsFinite(a) THEN b.v < 0
       ELSE IF IsFinite(b) THEN a.v > 0
       ELSE a.v > b.v

\* Math.min(a, b), Math.max(a, b): NaN when either is NaN
fMin(a, b) == IF IsNaN(a) \/ IsNaN(b) THEN NotANumber ELSE IF fGt(a, b) THEN b ELSE a
fMax(a, b) == IF IsNaN(a) \/ IsNaN(b) THEN NotANumber ELSE IF fGt(a, b) THEN a ELSE b

\* a || d: NaN and 0 are falsy
fOr(a, d) == IF IsNaN(a) \/ IsZero(a) THEN d ELSE a

\* Math.exp(-g), g finite and >= 0 or not finite
fExpNeg(g) ==
    IF IsFinite(g) THEN Finite(ExpNeg(g.v))
    ELSE IF IsNaN(g) THEN NotANumber
    ELSE IF g.v > 0 THEN Finite(0) ELSE Infinite(1)

\* Math.cos, Math.sin: NaN for an argument that is not finite
fCos(a) == IF IsFinite(a) THEN Finite(Cos(a.v)) ELSE NotANumber
fSin(a) == IF IsFinite(a) THEN Finite(Sin(a.v)) ELSE NotANumber

FiniteVec(v) == IsFinite(v.x) /\ IsFinite(v.y) /\ IsFinite(v.z)
Lift(v) == Vec(Finite(v.x), Finite(v.y), Finite(v.z))
Lower(v) == Vec(v.x.v, v.y.v, v.z.v)
fScale(v, fx, fy, fz) == Vec(fMul(v.x, fx), fMul(v.y, fy), fMul(v.z, fz))

\* x * x + y * y + z * z of a vector with a component that is not finite: NaN
\* or Infinity
fLen2(v) == fAdd(fAdd(fMul(v.x, v.x), fMul(v.y, v.y)), fMul(v.z, v.z))

\* applyNoiseStep(v, noise, dt) of hooks/useBlochState.ts
applyNoiseStepIEEE(v, ns, dt) ==
    LET one == Finite(Scale)
        rateMultiplier == fOr(ns.speed, one)
        theta == fMul(fMul(Finite(5 * Scale), rateMultiplier), dt)
        cosT == fCos(theta)
        sinT == fSin(theta)
        Precessed(u) == Vec(fSub(fMul(u.x, cosT), fMul(u.y, sinT)),
                            fAdd(fMul(u.x, sinT), fMul(u.y, cosT)), u.z)
        fDep == fExpNeg(fMul(fMul(fMul(ns.depolarizing, Finite(2 * Scale)), rateMultiplier), dt))
        Depolarized(u) ==
            IF fGt(ns.depolarizing, Finite(0)) THEN fScale(u, fDep, fDep, fDep) ELSE u
        gamma1 == fMul(fMul(ns.amplitudeDamping, Finite((3 * Scale) \div 2)), rateMultiplier)
        factorXY == fExpNeg(fDiv(fMul(gamma1, dt), Finite(2 * Scale)))
        factorZ == fExpNeg(fMul(gamma1, dt))
        Damped(u) ==
            IF fGt(ns.amplitudeDamping, Finite(0))
            THEN Vec(fMul(u.x, factorXY), fMul(u.y, factorXY),
                     fSub(one, fMul(fSub(one, u.z), factorZ)))
            ELSE u
        fPhi == fExpNeg(fMul(fMul(fMul(ns.phaseFlip, Finite(3 * Scale)), rateMultiplier), dt))
        PhaseFlipped(u) ==
            IF fGt(ns.phaseFlip, Finite(0)) THEN fScale(u, fPhi, fPhi, one) ELSE u
        fBit == fExpNeg(fMul(fMul(fMul(ns.bitFlip, Finite(2 * Scale)), rateMultiplier), dt))
        BitFlipped(u) ==
            IF fGt(ns.bitFlip, Finite(0)) THEN fScale(u, one, fBit, fBit) ELSE u
        \* Math.sqrt keeps NaN and Infinity
        Clamped(u) ==
            IF FiniteVec(u) THEN Lift(SafetyClamp(Lower(u)))
            ELSE IF fGt(fLen2(u), one)
                 THEN Vec(fDiv(u.x, fLen2(u)), fDiv(u.y, fLen2(u)), fDiv(u.z, fLen2(u)))
            ELSE u
        OrZero(u) == Vec(fOr(u.x, Finite(0)), fOr(u.y, Finite(0)), fOr(u.z, Finite(0)))
    IN OrZero(Clamped(BitFlipped(PhaseFlipped(Damped(Depolarized(Precessed(v)))))))

\* clamp(v, min, max) of unnamed/part_005
fClamp(v, lo, hi) == fMax(lo, fMin(hi, v))

\* evolve(prev, noise) of unnamed/part_005
evolveIEEE(prev, ns, bitDraw, phaseDraw) ==
    LET one == Finite(Scale)
        speed == fClamp(fOr(ns.speed, one), Finite(Scale \div 10), Finite(10 * Scale))
        a == IF bitDraw THEN Vec(prev.x, fNeg(prev.y), fNeg(prev.z)) ELSE prev
        b == IF phaseDraw THEN Vec(fNeg(a.x), fNeg(a.y), a.z) ELSE a
        dephase == fClamp(fSub(one, fMul(fMul(fAdd(ns.phaseFlip, ns.depolarizing),
                                              Finite(Scale \div 50)), speed)),
                          Finite(0), one)
        c == fScale(b, dephase, dephase, one)
        damp == fClamp(fMul(fMul(ns.amplitudeDamping, Finite(Scale \div 50)), speed),
                       Finite(0), one)
        shrink == fSub(one, fMul(damp, Finite((Scale * 6) \div 10)))
        d == Vec(fMul(c.x, shrink), fMul(c.y, shrink),
                 fAdd(fMul(c.z, fSub(one, damp)), damp))
        depFactor == fClamp(fSub(one, fMul(fMul(ns.depolarizing, Finite((Scale * 3) \div 100)),
                                           speed)),
                            Finite(0), one)
        e == fScale(d, depFactor, depFactor, depFactor)
        L == fLen2(e)        \* Math.sqrt keeps NaN and Infinity
    IN IF FiniteVec(e) THEN Lift(Normalize(Lower(e)))
       ELSE IF fGt(L, one) THEN Vec(fDiv(e.x, L), fDiv(e.y, L), fDiv(e.z, L))
       ELSE e

\* Math.random() < p can be true iff p > 0, and false iff p is NaN or p < 1
fCanDraw(below, p) == IF below THEN fGt(p, Finite(0)) ELSE ~fGt(p, Finite(Scale)) /\ p # Finite(Scale)
fFlipProb(strength, ns) ==
    fMul(fMul(strength, Finite(Scale \div 25)),
         fClamp(fOr(ns.speed, Finite(Scale)), Finite(Scale \div 10), Finite(10 * Scale)))

(***************************************************************************)
(* useTimeEvolution: the requestAnimationFrame hook (hooks/useBlochState.ts)*)
(* and the setInterval hook (unnamed/part_005). Each handler is one action; *)
(* the effect a state change triggers runs with the handler that caused it. *)
(* Array indices are JavaScript's (from 0); history[k + 1] is the element   *)
(* at index k.                                                              *)
(***************************************************************************)
MAX_HISTORY == 600
MaxTime == 60

\* arr.slice(-k)
SliceLast(arr, k) ==
    IF Len(arr) > k THEN SubSeq(arr, Len(arr) - k + 1, Len(arr)) ELSE arr

\* Math.round of a non-negative number
MathRound(x) == RoundDiv(x, Scale) * Scale

\* elapsed = Math.min((ts - last) / 1000, 0.05), ts and last in ms
Elapsed(last, ts) == Min((ts - last) * (Scale \div 1000), Scale \div 20)

\* steps = Math.max(1, Math.round(elapsed / BASE_DT))
StepsFor(elapsed) == Max(1, MathRound(Div(elapsed, BASE_DT)) \div Scale)

\* for (let i = 0; i < steps; i++) v = applyNoiseStep(v, noiseRef.current, BASE_DT)
RECURSIVE StepTimes(_, _, _)
StepTimes(v, ns, k) ==
    IF k = 0 THEN v
    ELSE CHOOSE r \in {StepTimes(w, ns, k - 1) : w \in {applyNoiseStep(v, ns, BASE_DT)}} : TRUE

\* the steps loop(ts) performs: if (!lastTsRef.current) lastTsRef.current = ts
LoopSteps(last, ts) == StepsFor(Elapsed(IF last = 0 THEN ts ELSE last, ts))

\* tickMs = Math.max(16, 70 / (noise.speed || 1))
TickMs(ns) == Max(16, RoundDiv(70 * Scale, SpeedOr1(ns.speed)))

\* ---- hooks/useBlochState.ts

\* loop(ts), called by the browser for the requested frame, gap ms after now
\* (until: the horizon of the run)
AnimationFrame(gap, until) ==
    /\ hook = "raf" /\ raf /\ now + gap <= until
    /\ LET ts == now + gap
           steps == LoopSteps(lastTs, ts)
           v == StepTimes(state, noise, steps)
       IN /\ lastTs' = ts
          /\ state' = v
          /\ history' = SliceLast(Append(history, v), MAX_HISTORY)
          /\ log' = Append(log, v)
          /\ now' = ts
          /\ op' = [name |-> "tick", steps |-> steps,
                    sinceReset |-> IF resetAt >= 0 THEN ts - resetAt ELSE -1]
    /\ raf' = TRUE
    /\ resetAt' = -1
    /\ UNCHANGED <<hook, running, noise, calls>>
    /\ UNCHANGED <<simVars, vizVars>>

\* setRunningWrapped(b), and the [running, loop] effect when running changes
SetRunningRaf(b) ==
    /\ hook = "raf"
    /\ lastTs' = 0
    /\ running' = b
    /\ raf' = IF b = running THEN raf ELSE b
    /\ op' = [name |-> "setRunning", b |-> b]
    /\ resetAt' = -1
    /\ UNCHANGED <<hook, state, history, noise, now, calls, log>>
    /\ UNCHANGED <<simVars, vizVars>>

\* resetTo(next)
ResetToRaf(next) ==
    /\ hook = "raf"
    /\ state' = next
    /\ history' = <<next>>
    /\ log' = <<next>>
    /\ op' = [name |-> "resetTo", v |-> next]
    /\ resetAt' = IF running THEN now ELSE -1
    /\ UNCHANGED <<hook, running, noise, lastTs, raf, now, calls>>
    /\ UNCHANGED <<simVars, vizVars>>

\* scrubToIndex(index)
ScrubToIndexRaf(index) ==
    /\ hook = "raf"
    /\ op' = [name |-> "scrubToIndex", index |-> index]
    /\ IF index < 0 \/ index >= Len(history)
       THEN UNCHANGED <<state, running, raf>>        \* if (!target) return
       ELSE /\ running' = FALSE
            /\ raf' = FALSE
            /\ state' = history[index + 1]
    /\ resetAt' = -1
    /\ UNCHANGED <<hook, history, noise, lastTs, now, calls, log>>
    /\ UNCHANGED <<simVars, vizVars>>

\* the [initialState] effect: the caller's preset changed
InitialStateEffect(initialState) ==
    /\ hook = "raf"
    /\ state' = initialState
    /\ history' = <<initialState>>
    /\ log' = <<initialState>>
    /\ op' = [name |-> "initialState", v |-> initialState]
    /\ resetAt' = -1
    /\ UNCHANGED <<hook, running, noise, lastTs, raf, now, calls>>
    /\ UNCHANGED <<simVars, vizVars>>

\* the [noise] effect: noiseRef.current = noise
SetNoiseRaf(ns) ==
    /\ hook = "raf" /\ ns # noise
    /\ noise' = ns
    /\ op' = [name |-> "setNoise"]
    /\ UNCHANGED <<hook, state, history, running, lastTs, raf, now, calls, resetAt, log>>
    /\ UNCHANGED <<simVars, vizVars>>

\* ---- unnamed/part_005. lastTs is the time the interval was set or last fired.

\* the setInterval callback, tickMs after the interval was set or last fired
IntervalTick(until) ==
    /\ hook = "interval" /\ running /\ lastTs + TickMs(noise) <= until
    /\ \E bitDraw \in BOOLEAN, phaseDraw \in BOOLEAN :
          /\ CanDraw(bitDraw, BitFlipProb(noise))
          /\ CanDraw(phaseDraw, PhaseFlipProb(noise))
          /\ LET next == evolve(state, noise, bitDraw, phaseDraw)
             IN /\ state' = next
                /\ history' = Append(SliceLast(history, MAX_HISTORY), next)
                /\ log' = Append(log, next)
    /\ now' = lastTs + TickMs(noise)
    /\ lastTs' = now'
    /\ op' = [name |-> "tick", steps |-> 1,
              sinceReset |-> IF resetAt >= 0 THEN now' - resetAt ELSE -1]
    /\ resetAt' = -1
    /\ UNCHANGED <<hook, running, noise, raf, calls>>
    /\ UNCHANGED <<simVars, vizVars>>

\* setRunning(b), and the [running, noise] effect when running changes
SetRunningInterval(b) ==
    /\ hook = "interval"
    /\ running' = b
    /\ lastTs' = IF b # running THEN now ELSE lastTs
    /\ op' = [name |-> "setRunning", b |-> b]
    /\ resetAt' = -1
    /\ UNCHANGED <<hook, state, history, noise, raf, now, calls, log>>
    /\ UNCHANGED <<simVars, vizVars>>

\* resetTo(vector)
ResetToInterval(vector) ==
    /\ hook = "interval"
    /\ state' = vector
    /\ history' = <<vector>>
    /\ log' = <<vector>>
    /\ op' = [name |-> "resetTo", v |-> vector]
    /\ resetAt' = IF running THEN now ELSE -1
    /\ UNCHANGED <<hook, running, noise, lastTs, raf, now, calls>>
    /\ UNCHANGED <<simVars, vizVars>>

\* scrubToIndex(index)
ScrubToIndexInterval(index) ==
    /\ hook = "interval"
    /\ op' = [name |-> "scrubToIndex", index |-> index]
    /\ IF Len(history) = 0
       THEN UNCHANGED state                          \* if (!h.length) return h
       ELSE state' = history[clamp(index, 0, Len(history) - 1) + 1]
    /\ resetAt' = -1
    /\ UNCHANGED <<hook, history, running, noise, lastTs, raf, now, calls, log>>
    /\ UNCHANGED <<simVars, vizVars>>

\* the caller's setNoise: the [running, noise] effect sets the interval anew
SetNoiseInterval(ns) ==
    /\ hook = "interval" /\ ns # noise
    /\ noise' = ns
    /\ lastTs' = IF running THEN now ELSE lastTs
    /\ op' = [name |-> "setNoise"]
    /\ UNCHANGED <<hook, state, history, running, raf, now, calls, resetAt, log>>
    /\ UNCHANGED <<simVars, vizVars>>

\* wall time passes: d ms without a frame; a set interval fires when it is due
Elapse(d) ==
    /\ now + d <= MaxTime
    /\ (hook = "interval" /\ running) => now + d < lastTs + TickMs(noise)
    /\ now' = now + d
    /\ op' = [name |-> "elapse"]
    /\ UNCHANGED <<hook, state, history, running, noise, lastTs, raf, calls, resetAt, log>>
    /\ UNCHANGED <<simVars, vizVars>>

FrameGaps == {16, 33}
ElapseGaps == {25}
ScrubIndices == (-1)..Len(history)
EvoNoise == {Noise(0, 0, 0, 0, Scale), Noise(300, 0, 0, 100, 5 * Scale)}
InitialVectors == {Vec(Scale, 0, 0)}
ResetVectors == {Vec(0, 0, Scale)}

InitEvolution ==
    /\ SimIdle
    /\ VizIdle
    /\ hook \in {"raf", "interval"}
    /\ state \in InitialVectors
    /\ history = <<state>>
    /\ log = <<state>>
    /\ running = TRUE
    /\ noise \in EvoNoise
    /\ lastTs = 0
    /\ raf = (hook = "raf")
    /\ now = 0
    /\ calls = 0
    /\ op = [name |-> "init"]
    /\ resetAt = -1

NextEvolution ==
    \/ \E gap \in FrameGaps : AnimationFrame(gap, MaxTime)
    \/ \E b \in BOOLEAN : SetRunningRaf(b)
    \/ \E v \in ResetVectors : ResetToRaf(v)
    \/ \E k \in ScrubIndices : ScrubToIndexRaf(k)
    \/ \E v \in ResetVectors : InitialStateEffect(v)
    \/ \E ns \in EvoNoise : SetNoiseRaf(ns)
    \/ IntervalTick(MaxTime)
    \/ \E b \in BOOLEAN : SetRunningInterval(b)
    \/ \E v \in ResetVectors : ResetToInterval(v)
    \/ \E k \in ScrubIndices : ScrubToIndexInterval(k)
    \/ \E ns \in EvoNoise : SetNoiseInterval(ns)
    \/ \E d \in ElapseGaps : Elapse(d)

SpecEvolution == InitEvolution /\ [][NextEvolution]_vars

(***************************************************************************)
(* Continuous stepping from mount, one frame (or interval tick) every 16   *)
(* ms, long enough to fill the history buffer.                             *)
(***************************************************************************)
LongRun == 9700

InitHistory ==
    /\ SimIdle
    /\ VizIdle
    /\ hook \in {"raf", "interval"}
    /\ state = Vec(Scale, 0, 0)
    /\ history = <<state>>
    /\ log = <<state>>
    /\ running = TRUE
    /\ noise = Noise(Scale \div 10, 0, 0, 0, 5 * Scale)
    /\ lastTs = 0
    /\ raf = (hook = "raf")
    /\ now = 0
    /\ calls = 0
    /\ op = [name |-> "init"]
    /\ resetAt = -1

NextHistory ==
    \/ AnimationFrame(16, LongRun)
    \/ IntervalTick(LongRun)

SpecHistory == InitHistory /\ [][NextHistory]_vars

(***************************************************************************)
(* Frames that arrive on time (16 ms) and late (80 ms), interval ticks,    *)
(* pause and resume.                                                       *)
(***************************************************************************)
CadenceHorizon == 200
CadenceGaps == {16, 80}

NextCadence ==
    \/ \E gap \in CadenceGaps : AnimationFrame(gap, CadenceHorizon)
    \/ \E b \in BOOLEAN : SetRunningRaf(b)
    \/ IntervalTick(CadenceHorizon)
    \/ \E b \in BOOLEAN : SetRunningInterval(b)

SpecCadence == InitEvolution /\ [][NextCadence]_vars

(***************************************************************************)
(* Stepper calls on vectors and noise parameters that may hold NaN or      *)
(* +-Infinity.                                                             *)
(***************************************************************************)
MaxGuardSteps == 2

\* the numbers a caller can hand over
Doubles == {Finite(0), Finite(Scale), NotANumber, Infinite(1), Infinite(-1)}
GuardVectors ==
    {Vec(x, y, z) : x \in {Finite(Scale), NotANumber, Infinite(1)},
                    y \in {Finite(0), Infinite(1)},
                    z \in {Finite(0), NotANumber, Infinite(-1)}}
\* at most one field of the noise parameters is not an ordinary strength
GuardNoise ==
    {Noise(Finite(Scale), Finite(0), Finite(0), Finite(0), Finite(Scale)),
     Noise(Finite(0), Finite(0), Finite(0), Finite(0), Finite(Scale))}
    \cup {Noise(d, Finite(0), Finite(0), Finite(0), Finite(Scale)) : d \in Doubles}
    \cup {Noise(Finite(0), d, Finite(0), Finite(0), Finite(Scale)) : d \in Doubles}
    \cup {Noise(Finite(0), Finite(0), d, Finite(0), Finite(Scale)) : d \in Doubles}
    \cup {Noise(Finite(0), Finite(0), Finite(0), d, Finite(Scale)) : d \in Doubles}
    \cup {Noise(Finite(Scale), Finite(0), Finite(0), Finite(0), d) : d \in Doubles}

InitGuard ==
    /\ SimIdle
    /\ VizIdle
    /\ hook \in {"raf", "interval"}
    /\ state \in GuardVectors
    /\ noise \in GuardNoise
    /\ history = <<state>>
    /\ running = FALSE /\ lastTs = 0 /\ raf = FALSE /\ now = 0
    /\ calls = 0 /\ op = [name |-> "init"] /\ resetAt = -1 /\ log = <<>>

\* one stepper call of loop, and the history append that follows it
StepRafIEEE ==
    /\ hook = "raf" /\ calls < MaxGuardSteps
    /\ state' = applyNoiseStepIEEE(state, noise, Finite(BASE_DT))
    /\ history' = SliceLast(Append(history, state'), MAX_HISTORY)
    /\ calls' = calls + 1
    /\ op' = [name |-> "step"]
    /\ UNCHANGED <<hook, running, noise, lastTs, raf, now, resetAt, log>>
    /\ UNCHANGED <<simVars, vizVars>>

\* one interval callback
StepIntervalIEEE ==
    /\ hook = "interval" /\ calls < MaxGuardSteps
    /\ \E bitDraw \in BOOLEAN, phaseDraw \in BOOLEAN :
          /\ fCanDraw(bitDraw, fFlipProb(noise.bitFlip, noise))
          /\ fCanDraw(phaseDraw, fFlipProb(noise.phaseFlip, noise))
          /\ state' = evolveIEEE(state, noise, bitDraw, phaseDraw)
    /\ history' = Append(SliceLast(history, MAX_HISTORY), state')
    /\ calls' = calls + 1
    /\ op' = [name |-> "step"]
    /\ UNCHANGED <<hook, running, noise, lastTs, raf, now, resetAt, log>>
    /\ UNCHANGED <<simVars, vizVars>>

\* the caller changes the noise parameters between two calls
SetNoiseIEEE ==
    /\ calls < MaxGuardSteps
    /\ op.name = "step"
    /\ \E ns \in GuardNoise : ns # noise /\ noise' = ns
    /\ op' = [name |-> "setNoise"]
    /\ UNCHANGED <<hook, state, history, running, lastTs, raf, now, calls, resetAt, log>>
    /\ UNCHANGED <<simVars, vizVars>>

NextGuard == StepRafIEEE \/ StepIntervalIEEE \/ SetNoiseIEEE

SpecGuard == InitGuard /\ [][NextGuard]_vars

(***************************************************************************)
(* server/quantumSim.ts: Bell and GHZ samplers                             *)
(***************************************************************************)
\* return res.json(result): the response of the route that made the call
Respond(r) == IF req.route = "none" THEN res ELSE [status |-> 200, body |-> r]

\* res.json(...) writes the response on the connection of the request being
\* handled; draws: the random draws the call has made
Deliver(r) ==
    IF "id" \in DOMAIN req
    THEN [net EXCEPT !.responses = @ \cup {[id |-> req.id, res |-> r, draws |-> played]}]
    ELSE net

BellKeys == {"00", "01", "10", "11"}
GhzKeys == {"000", "001", "010", "011", "100", "101", "110", "111"}

BellInitCounts == [k \in BellKeys |-> 0]
GhzInitCounts == [k \in GhzKeys |-> 0]

\* Math.random() < 0.5 ? counts[lo]++ : counts[hi]++   (draw = TRUE: below 0.5)
SampleShotBug(c, draw, lo, hi) ==
    IF draw THEN [c EXCEPT ![lo] = @ + 1] ELSE c

SampleShot(c, draw, lo, hi) ==
    IF draw THEN [c EXCEPT ![lo] = @ + 1] ELSE [c EXCEPT ![hi] = @ + 1]

BellShot ==
    /\ fn = "simulateBell" /\ pc = "loop" /\ i < n
    /\ \E draw \in BOOLEAN : counts' = SampleShot(counts, draw, "00", "11")
    /\ i' = i + 1
    /\ UNCHANGED <<fn, pc, n, withEve, sifted, errors, trace, played, result, req, res, net>>
    /\ UNCHANGED <<evoVars, vizVars>>

BellReturn ==
    /\ fn = "simulateBell" /\ pc = "loop" /\ ~(i < n)
    /\ result' = [kind |-> "counts", counts |-> counts]
    /\ pc' = "done"
    /\ res' = Respond(result')
    /\ net' = Deliver(res')
    /\ UNCHANGED <<fn, n, withEve, i, counts, sifted, errors, trace, played, req>>
    /\ UNCHANGED <<evoVars, vizVars>>

GhzShot ==
    /\ fn = "simulateGhz" /\ pc = "loop" /\ i < n
    /\ \E draw \in BOOLEAN : counts' = SampleShot(counts, draw, "000", "111")
    /\ i' = i + 1
    /\ UNCHANGED <<fn, pc, n, withEve, sifted, errors, trace, played, result, req, res, net>>
    /\ UNCHANGED <<evoVars, vizVars>>

GhzReturn ==
    /\ fn = "simulateGhz" /\ pc = "loop" /\ ~(i < n)
    /\ result' = [kind |-> "counts", counts |-> counts]
    /\ pc' = "done"
    /\ res' = Respond(result')
    /\ net' = Deliver(res')
    /\ UNCHANGED <<fn, n, withEve, i, counts, sifted, errors, trace, played, req>>
    /\ UNCHANGED <<evoVars, vizVars>>

(***************************************************************************)
(* server/quantumSim.ts: BB84                                              *)
(***************************************************************************)
Bit == {0, 1}
Basis == {"Z", "X"}
TRACE_CAP == 50

\* The qubit in transit: disturbed by Eve only when she measures in the other basis.
TransmitBug(aliceBit, aliceBasis, eve, eveBasis, eveBit) ==
    IF eveBasis # aliceBasis
    THEN [bit |-> eveBit, basis |-> eveBasis]
    ELSE [bit |-> aliceBit, basis |-> aliceBasis]

TransmitDisturb(aliceBit, aliceBasis, eve, eveBasis, eveBit) ==
    IF eve
    THEN [bit |-> eveBit, basis |-> eveBasis]
    ELSE [bit |-> aliceBit, basis |-> aliceBasis]

Transmit(aliceBit, aliceBasis, eve, eveBasis, eveBit) ==
    IF eve /\ eveBasis # aliceBasis
    THEN [bit |-> eveBit, basis |-> eveBasis]
    ELSE [bit |-> aliceBit, basis |-> aliceBasis]

\* Bob's result: the transmitted bit in the matching basis, a fresh random bit otherwise.
BobMeasure(t, bobBasis, bobRand) ==
    IF bobBasis = t.basis THEN t.bit ELSE bobRand

\* const isMatch = aliceBasis === bobBasis
IsMatchBug(aliceBasis, bobBasis, t) == t.basis = bobBasis

IsMatch(aliceBasis, bobBasis, t) == aliceBasis = bobBasis

\* const isError = isMatch && bobResult !== aliceBit
IsError(isMatch, bobResult, aliceBit) == isMatch /\ bobResult # aliceBit

\* errorRate: sifted > 0 ? errors / sifted : 0, kept as an exact fraction
ErrorRate(e, s) ==
    IF s > 0 THEN [num |-> e, den |-> s] ELSE [num |-> 0, den |-> 1]

Bb84Row(id, aliceBit, aliceBasis, eveBasisUsed, bobBasis, bobResult, isMatch, isError) ==
    [id |-> id, aliceBit |-> aliceBit, aliceBasis |-> aliceBasis,
     eveBasis |-> eveBasisUsed, bobBasis |-> bobBasis, bobBit |-> bobResult,
     keep |-> isMatch, error |-> isError]

\* The random draws of one round: randomBit / randomBasis of Alice, Eve and Bob.
AllDraws ==
    [aliceBit : Bit, aliceBasis : Basis, eveBasis : Basis, eveBit : Bit,
     bobBasis : Basis, bobRand : Bit]

\* One fixed draw per round, varying with the round index.
ScriptedDraw(k) ==
    [aliceBit |-> k % 2,
     aliceBasis |-> IF k % 3 = 0 THEN "Z" ELSE "X",
     eveBasis |-> IF k % 2 = 0 THEN "X" ELSE "Z",
     eveBit |-> (k \div 2) % 2,
     bobBasis |-> IF k % 4 < 2 THEN "Z" ELSE "X",
     bobRand |-> 0]

\* Draws around the trace cap of a long run: a kept round, a discarded round
\* and a round that Eve can disturb.
TailDraws ==
    {[aliceBit |-> 1, aliceBasis |-> "Z", eveBasis |-> "Z", eveBit |-> 0,
      bobBasis |-> "Z", bobRand |-> 0],
     [aliceBit |-> 0, aliceBasis |-> "X", eveBasis |-> "X", eveBit |-> 1,
      bobBasis |-> "Z", bobRand |-> 1],
     [aliceBit |-> 1, aliceBasis |-> "X", eveBasis |-> "Z", eveBit |-> 0,
      bobBasis |-> "X", bobRand |-> 0]}

\* The draws explored in round k of a run of the given length: every draw in a
\* short run; in a long run one scripted draw per round up to the trace cap and
\* the tail draws from there on.
Draws(rounds, k) ==
    IF rounds <= MaxRounds THEN AllDraws
    ELSE IF k < TRACE_CAP - 1 THEN {ScriptedDraw(k)}
    ELSE TailDraws

\* if (i < 50) trace.push(...)
InTraceBug(k) == k <= TRACE_CAP

InTrace(k) == k < TRACE_CAP

\* One iteration of the for-loop of runBb84. The draws that the code makes only
\* on some paths (Eve's basis, Eve's collapse bit, Bob's wrong-basis bit) are
\* bound here and read only on those paths.
Bb84Round ==
    /\ fn = "runBb84" /\ pc = "loop" /\ i < n
    /\ \E d \in Draws(n, i) :
         LET t == Transmit(d.aliceBit, d.aliceBasis, withEve, d.eveBasis, d.eveBit)
             eveBasisUsed == IF withEve THEN d.eveBasis ELSE "-"
             bobResult == BobMeasure(t, d.bobBasis, d.bobRand)
             isMatch == IsMatch(d.aliceBasis, d.bobBasis, t)
             isError == IsError(isMatch, bobResult, d.aliceBit)
             row == Bb84Row(i + 1, d.aliceBit, d.aliceBasis, eveBasisUsed, d.bobBasis,
                            bobResult, isMatch, isError)
         IN /\ sifted' = IF isMatch THEN sifted + 1 ELSE sifted
            /\ errors' = IF isMatch /\ isError THEN errors + 1 ELSE errors
            /\ trace' = IF InTrace(i) THEN Append(trace, row) ELSE trace
            /\ played' = Append(played, row)
    /\ i' = i + 1
    /\ UNCHANGED <<fn, pc, n, withEve, counts, result, req, res, net>>
    /\ UNCHANGED <<evoVars, vizVars>>

Bb84Return ==
    /\ fn = "runBb84" /\ pc = "loop" /\ ~(i < n)
    /\ result' = [kind |-> "bb84", rounds |-> n, siftedKeyLength |-> sifted,
                  errorRate |-> ErrorRate(errors, sifted), trace |-> trace]
    /\ pc' = "done"
    /\ res' = Respond(result')
    /\ net' = Deliver(res')
    /\ UNCHANGED <<fn, n, withEve, i, counts, sifted, errors, trace, played, req>>
    /\ UNCHANGED <<evoVars, vizVars>>

InitSim ==
    /\ fn \in {"simulateBell", "simulateGhz", "runBb84"}
    /\ pc = "loop"
    /\ n \in 0..(IF fn = "runBb84" THEN MaxRounds ELSE MaxShots)
    /\ withEve \in (IF fn = "runBb84" THEN BOOLEAN ELSE {FALSE})
    /\ i = 0
    /\ counts = (IF fn = "simulateBell" THEN BellInitCounts
                 ELSE IF fn = "simulateGhz" THEN GhzInitCounts ELSE <<>>)
    /\ sifted = 0
    /\ errors = 0
    /\ trace = <<>>
    /\ played = <<>>
    /\ result = [kind |-> "none"]
    /\ req = [route |-> "none"] /\ res = [status |-> 0]
    /\ net = NoNet
    /\ EvoIdle
    /\ VizIdle

NextSim ==
    \/ BellShot \/ BellReturn
    \/ GhzShot \/ GhzReturn
    \/ Bb84Round \/ Bb84Return

SpecSim == InitSim /\ [][NextSim]_vars

(***************************************************************************)
(* runBb84 around the trace cap                                            *)
(***************************************************************************)
MaxTraceRounds == 52

InitTrace ==
    /\ fn = "runBb84"
    /\ pc = "loop"
    /\ n \in {0, 1} \cup ((TRACE_CAP - 1)..MaxTraceRounds)
    /\ withEve \in BOOLEAN
    /\ i = 0
    /\ counts = <<>>
    /\ sifted = 0
    /\ errors = 0
    /\ trace = <<>>
    /\ played = <<>>
    /\ result = [kind |-> "none"]
    /\ req = [route |-> "none"] /\ res = [status |-> 0]
    /\ net = NoNet
    /\ EvoIdle
    /\ VizIdle

NextTrace == Bb84Round \/ Bb84Return

SpecTrace == InitTrace /\ [][NextTrace]_vars

(***************************************************************************)
(* Request values. A JSON value of the request body is its type and its    *)
(* text: for a string the characters, for a number the decimal text that   *)
(* String(number) yields.                                                  *)
(***************************************************************************)
Undefined == [t |-> "undefined", text |-> <<>>]
Null == [t |-> "null", text |-> <<"n", "u", "l", "l">>]
JsNumber(text) == [t |-> "number", text |-> text]
JsString(text) == [t |-> "string", text |-> text]
JsTrue == [t |-> "boolean", text |-> <<"t", "r", "u", "e">>]
JsFalse == [t |-> "boolean", text |-> <<"f", "a", "l", "s", "e">>]

\* String(v)
String(v) == v.text

\* v ?? d
Coalesce(v, d) == IF v.t \in {"undefined", "null"} THEN d ELSE v

\* a number or NaN
NaN == [nan |-> TRUE, v |-> 0]
Num(k) == [nan |-> FALSE, v |-> k]

Digits == {"0", "1", "2", "3", "4", "5", "6", "7", "8", "9"}
WhiteSpace == {" "}

DigitVal(c) ==
    CASE c = "0" -> 0 [] c = "1" -> 1 [] c = "2" -> 2 [] c = "3" -> 3 [] c = "4" -> 4
      [] c = "5" -> 5 [] c = "6" -> 6 [] c = "7" -> 7 [] c = "8" -> 8 [] c = "9" -> 9

\* the first position from k on whose character is not in set
RECURSIVE SkipWhile(_, _, _)
SkipWhile(s, k, set) ==
    IF k <= Len(s) /\ s[k] \in set THEN SkipWhile(s, k + 1, set) ELSE k

\* the value of the digits s[a], ..., s[b - 1]
RECURSIVE DigitsValue(_, _, _)
DigitsValue(s, a, b) ==
    IF b <= a THEN 0 ELSE 10 * DigitsValue(s, a, b - 1) + DigitVal(s[b - 1])

RECURSIVE Pow10(_)
Pow10(k) == IF k = 0 THEN 1 ELSE 10 * Pow10(k - 1)

\* parseInt(s, 10): leading white space, a sign, then the longest run of
\* digits; what follows is ignored; NaN when there is no digit
parseInt(s) ==
    LET a == SkipWhile(s, 1, WhiteSpace)
        neg == a <= Len(s) /\ s[a] = "-"
        b == IF a <= Len(s) /\ s[a] \in {"-", "+"} THEN a + 1 ELSE a
        e == SkipWhile(s, b, Digits)
    IN IF e = b THEN NaN
       ELSE Num(IF neg THEN -DigitsValue(s, b, e) ELSE DigitsValue(s, b, e))

\* The longest prefix of s that is a decimal literal (white space, sign,
\* digits, fraction, exponent): whether there is one, where it ends and its
\* value in units of 1 / Scale.
FloatScan(s) ==
    LET a == SkipWhile(s, 1, WhiteSpace)
        neg == a <= Len(s) /\ s[a] = "-"
        b == IF a <= Len(s) /\ s[a] \in {"-", "+"} THEN a + 1 ELSE a
        ie == SkipWhile(s, b, Digits)
        hasDot == ie <= Len(s) /\ s[ie] = "."
        fs == IF hasDot THEN ie + 1 ELSE ie
        fe == SkipWhile(s, fs, Digits)
        ok == ie > b \/ fe > fs
        hasE == fe <= Len(s) /\ s[fe] \in {"e", "E"}
        eneg == hasE /\ fe + 1 <= Len(s) /\ s[fe + 1] = "-"
        ed == IF hasE /\ fe + 1 <= Len(s) /\ s[fe + 1] \in {"-", "+"}
              THEN fe + 2 ELSE fe + 1
        ee == SkipWhile(s, ed, Digits)
        hasExp == hasE /\ ee > ed
        mant == DigitsValue(s, b, ie) * Scale
                  + RoundDiv(DigitsValue(s, fs, fe) * Scale, Pow10(fe - fs))
        x == DigitsValue(s, ed, ee)
        mag == IF ~hasExp THEN mant
               ELSE IF eneg THEN RoundDiv(mant, Pow10(x)) ELSE mant * Pow10(x)
    IN [ok |-> ok, end |-> IF hasExp THEN ee ELSE fe,
        v |-> IF ~ok THEN 0 ELSE IF neg THEN -mag ELSE mag]

\* parseFloat(s): the value of the longest literal prefix; NaN when there is none
parseFloat(s) == LET r == FloatScan(s) IN IF r.ok THEN Num(r.v) ELSE NaN

\* body.withEve === true
StrictlyTrue(v) == v = JsTrue

(***************************************************************************)
(* server: the experiment routes                                           *)
(***************************************************************************)
\* return res.status(400).json({ error }): no simulator is called
Reject ==
    /\ res' = [status |-> 400]
    /\ fn' = "none" /\ pc' = "done" /\ n' = 0 /\ withEve' = FALSE /\ i' = 0
    /\ counts' = <<>> /\ sifted' = 0 /\ errors' = 0 /\ trace' = <<>> /\ played' = <<>>
    /\ result' = [kind |-> "none"]

\* the counts object kept between the calls of one simulator instead of being
\* allocated by each call
CallShared(f, arg, eve, c) ==
    /\ res' = [status |-> 0]
    /\ fn' = f /\ pc' = "loop" /\ n' = arg /\ withEve' = eve /\ i' = 0
    /\ counts' = (IF fn = f THEN counts ELSE c)
    /\ sifted' = 0 /\ errors' = 0 /\ trace' = <<>> /\ played' = <<>>
    /\ result' = [kind |-> "none"]

\* the handler enters simulateBell / simulateGhz / runBb84
Call(f, arg, eve, c) ==
    /\ res' = [status |-> 0]
    /\ fn' = f /\ pc' = "loop" /\ n' = arg /\ withEve' = eve /\ i' = 0
    /\ counts' = c /\ sifted' = 0 /\ errors' = 0 /\ trace' = <<>> /\ played' = <<>>
    /\ result' = [kind |-> "none"]

\* the server has not received its request yet (one request per behaviour)
Idle == req.route = "none" /\ pc = "done"

ShotsInputs ==
    {Undefined, Null,
     JsNumber(<<"0">>), JsNumber(<<"1">>), JsNumber(<<"3">>), JsNumber(<<"-", "2">>),
     JsNumber(<<"1", ".", "5">>), JsNumber(<<"1", "0", "0", "0", "1">>),
     JsString(<<"2">>), JsString(<<"2", "a", "b">>), JsString(<<"a", "b">>)}

\* const shots = parseInt(String(req.body?.shots ?? '100'), 10)
ParseShots(body) == parseInt(String(Coalesce(body.shots, JsString(<<"1", "0", "0">>))))

\* isNaN(shots) || shots < 1 || shots > 10000
BadShots(shots) == shots.nan \/ shots.v < 1 \/ shots.v > 10000

PostBell ==
    /\ Idle
    /\ \E shots \in ShotsInputs :
         LET body == [shots |-> shots]
         IN /\ req' = [route |-> "bell", body |-> body]
            /\ IF BadShots(ParseShots(body)) THEN Reject
               ELSE Call("simulateBell", ParseShots(body).v, FALSE, BellInitCounts)
    /\ UNCHANGED <<net, evoVars, vizVars>>

PostGhz ==
    /\ Idle
    /\ \E shots \in ShotsInputs :
         LET body == [shots |-> shots]
         IN /\ req' = [route |-> "ghz", body |-> body]
            /\ IF BadShots(ParseShots(body)) THEN Reject
               ELSE Call("simulateGhz", ParseShots(body).v, FALSE, GhzInitCounts)
    /\ UNCHANGED <<net, evoVars, vizVars>>

RoundsInputs ==
    {Undefined,
     JsNumber(<<"0">>), JsNumber(<<"1">>), JsNumber(<<"2">>),
     JsNumber(<<"2", ".", "5">>), JsNumber(<<"5", "0", "0", "1">>),
     JsString(<<"3">>), JsString(<<"7", "e", "3">>), JsString(<<"a", "b">>)}

WithEveInputs == {Undefined, JsTrue, JsFalse, JsString(<<"t", "r", "u", "e">>)}

\* const rounds = parseInt(String(body.rounds ?? '50'), 10)
ParseRounds(body) == parseInt(String(Coalesce(body.rounds, JsString(<<"5", "0">>))))

\* isNaN(rounds) || rounds < 1 || rounds > 5000
BadRounds(rounds) == rounds.nan \/ rounds.v < 1 \/ rounds.v > 5000

PostBb84 ==
    /\ Idle
    /\ \E rounds \in RoundsInputs, eve \in WithEveInputs :
         LET body == [rounds |-> rounds, withEve |-> eve]
         IN /\ req' = [route |-> "bb84", body |-> body]
            /\ IF BadRounds(ParseRounds(body)) THEN Reject
               ELSE Call("runBb84", ParseRounds(body).v, StrictlyTrue(body.withEve), <<>>)
    /\ UNCHANGED <<net, evoVars, vizVars>>

\* Math.PI
PI == 3142

\* thetaRad / 2
HalfAngle(thetaRad) == Div(thetaRad, 2 * Scale)

\* Math.pow(c, 2)
Pow2Bug(c) == c

Pow2(c) == Mul(c, c)

\* (config.angleDegrees * Math.PI) / 180
ThetaRad(angleDegrees) == Div(Mul(angleDegrees, PI), 180 * Scale)

\* simulateSternGerlach({ angleDegrees }), draw being the value of Math.random()
simulateSternGerlach(angleDegrees, draw) ==
    LET probUp == Pow2(Cos(HalfAngle(ThetaRad(angleDegrees))))
        probDown == Scale - probUp
    IN [kind |-> "sternGerlach",
        outcome |-> IF draw < probUp THEN "up" ELSE "down",
        probUp |-> probUp, probDown |-> probDown]

AngleInputs ==
    {Undefined, Null,
     JsNumber(<<"0">>), JsNumber(<<"9", "0">>), JsNumber(<<"1", "8", "0">>),
     JsNumber(<<"6", "0">>), JsNumber(<<"-", "9", "0">>),
     JsNumber(<<"2", "2", ".", "5">>),
     JsString(<<"4", "5">>), JsString(<<"1", "2", "a", "b">>), JsString(<<"a", "b">>)}

\* values of Math.random(), in [0, 1)
RandomDraws == {0, 1, Scale \div 2 - 1, Scale \div 2, Scale - 1}

\* const angle = parseFloat(String(angleDegrees ?? '0'))
ParseAngle(body) == parseFloat(String(Coalesce(body.angleDegrees, JsString(<<"0">>))))

PostSternGerlach ==
    /\ Idle
    /\ \E angleDegrees \in AngleInputs, draw \in RandomDraws :
         LET body == [angleDegrees |-> angleDegrees]
             angle == ParseAngle(body)
         IN /\ req' = [route |-> "stern-gerlach", body |-> body]
            /\ IF angle.nan THEN Reject
               ELSE /\ result' = simulateSternGerlach(angle.v, draw)
                    /\ res' = [status |-> 200, body |-> result']
                    /\ fn' = "simulateSternGerlach" /\ pc' = "done"
                    /\ played' = <<[draw |-> draw]>>
                    /\ n' = 0 /\ withEve' = FALSE /\ i' = 0 /\ counts' = <<>>
                    /\ sifted' = 0 /\ errors' = 0 /\ trace' = <<>>
    /\ UNCHANGED <<net, evoVars, vizVars>>

InitApi ==
    /\ SimIdle
    /\ EvoIdle
    /\ VizIdle

NextApi ==
    \/ PostBell \/ PostGhz \/ PostBb84 \/ PostSternGerlach
    \/ BellShot \/ BellReturn
    \/ GhzShot \/ GhzReturn
    \/ Bb84Round \/ Bb84Return

SpecApi == InitApi /\ [][NextApi]_vars

(***************************************************************************)
(* server: several clients, one event loop                                 *)
(***************************************************************************)
Clients == {1, 2}

\* the request a client posts to one of the four experiment routes
ClientRequests(c) ==
    {[id |-> c, route |-> "bell", body |-> [shots |-> sh]] :
        sh \in {JsNumber(<<"1">>), JsNumber(<<"2">>), JsNumber(<<"0">>)}}
    \cup {[id |-> c, route |-> "ghz", body |-> [shots |-> sh]] :
        sh \in {JsNumber(<<"2">>)}}
    \cup {[id |-> c, route |-> "bb84", body |-> [rounds |-> JsNumber(<<"1">>), withEve |-> eve]] :
        eve \in {JsTrue, JsFalse}}
    \cup {[id |-> c, route |-> "stern-gerlach", body |-> [angleDegrees |-> a]] :
        a \in {JsNumber(<<"6", "0">>)}}

\* a client posts its request; it waits until the event loop is free
Send(c) ==
    /\ \A r \in net.sent : r.id # c
    /\ \E r \in ClientRequests(c) :
         net' = [net EXCEPT !.pending = @ \cup {r}, !.sent = @ \cup {r}]
    /\ UNCHANGED <<fn, pc, n, withEve, i, counts, sifted, errors, trace, played, result,
                   req, res>>
    /\ UNCHANGED <<evoVars, vizVars>>

\* the event loop takes a waiting request once the previous handler has returned
Taken(r) == [net EXCEPT !.pending = @ \ {r}]

\* return res.status(400).json({ error }) on the connection of request r
Refused(r) ==
    [Taken(r) EXCEPT !.responses =
        @ \cup {[id |-> r.id, res |-> [status |-> 400], draws |-> <<>>]}]

HandleBell ==
    /\ pc = "done"
    /\ \E r \in net.pending :
         /\ r.route = "bell"
         /\ req' = r
         /\ IF BadShots(ParseShots(r.body)) THEN Reject /\ net' = Refused(r)
            ELSE /\ Call("simulateBell", ParseShots(r.body).v, FALSE, BellInitCounts)
                 /\ net' = Taken(r)
    /\ UNCHANGED <<evoVars, vizVars>>

HandleGhz ==
    /\ pc = "done"
    /\ \E r \in net.pending :
         /\ r.route = "ghz"
         /\ req' = r
         /\ IF BadShots(ParseShots(r.body)) THEN Reject /\ net' = Refused(r)
            ELSE /\ Call("simulateGhz", ParseShots(r.body).v, FALSE, GhzInitCounts)
                 /\ net' = Taken(r)
    /\ UNCHANGED <<evoVars, vizVars>>

HandleBb84 ==
    /\ pc = "done"
    /\ \E r \in net.pending :
         /\ r.route = "bb84"
         /\ req' = r
         /\ IF BadRounds(ParseRounds(r.body)) THEN Reject /\ net' = Refused(r)
            ELSE /\ Call("runBb84", ParseRounds(r.body).v, StrictlyTrue(r.body.withEve), <<>>)
                 /\ net' = Taken(r)
    /\ UNCHANGED <<evoVars, vizVars>>

HandleSternGerlach ==
    /\ pc = "done"
    /\ \E r \in net.pending, draw \in {0, Scale - 1} :
         LET angle == ParseAngle(r.body)
         IN /\ r.route = "stern-gerlach"
            /\ req' = r
            /\ IF angle.nan THEN Reject /\ net' = Refused(r)
               ELSE /\ result' = simulateSternGerlach(angle.v, draw)
                    /\ res' = [status |-> 200, body |-> result']
                    /\ fn' = "simulateSternGerlach" /\ pc' = "done"
                    /\ played' = <<[draw |-> draw]>>
                    /\ n' = 0 /\ withEve' = FALSE /\ i' = 0 /\ counts' = <<>>
                    /\ sifted' = 0 /\ errors' = 0 /\ trace' = <<>>
                    /\ net' = [Taken(r) EXCEPT !.responses =
                                  @ \cup {[id |-> r.id, res |-> res', draws |-> played']}]
    /\ UNCHANGED <<evoVars, vizVars>>

NextConcurrent ==
    \/ \E c \in Clients : Send(c)
    \/ HandleBell \/ HandleGhz \/ HandleBb84 \/ HandleSternGerlach
    \/ BellShot \/ BellReturn
    \/ GhzShot \/ GhzReturn
    \/ Bb84Round \/ Bb84Return

SpecConcurrent == InitApi /\ [][NextConcurrent]_vars

(***************************************************************************)
(* The circuit pages: GateBuilder and QasmVisualizer                       *)
(* (routes/QasmVisualizer.tsx), QiskitVisualizer (unnamed/part_003)        *)
(***************************************************************************)
MaxGates == 3
MaxLines == 3

\* PRESET_VECTORS[initPreset]
PresetVector(p) ==
    CASE p = "plus" -> Vec(Scale, 0, 0)
      [] p = "minus" -> Vec(-Scale, 0, 0)
      [] p = "zero" -> Vec(0, 0, Scale)
      [] p = "one" -> Vec(0, 0, -Scale)

\* a gate of a parsed circuit; qubit / target -1: the field is absent
Gate(g, qubit, target) == [gate |-> g, qubit |-> qubit, target |-> target]

\* g.qubit ?? 0
QubitOr0(g) == IF g.qubit = -1 THEN 0 ELSE g.qubit

\* x * ca - y * sa, x * sa + y * ca, z: the rotation of the S and T gates
RotateZ(v, angle) ==
    LET ca == Cos(angle)
        sa == Sin(angle)
    IN Vec(Mul(v.x, ca) - Mul(v.y, sa), Mul(v.x, sa) + Mul(v.y, ca), v.z)

\* applyGate of GateBuilder
applyGateBuilder(v, g) ==
    CASE g.id = "H" -> Vec(v.z, v.y, v.x)
      [] g.id \in {"X", "CNOT"} -> Vec(v.x, -v.y, -v.z)
      [] g.id = "Y" -> Vec(-v.x, v.y, -v.z)
      [] g.id = "Z" -> Vec(-v.x, -v.y, v.z)
      [] OTHER -> v

\* applyGateToBloch of QiskitVisualizer
applyGateToBloch(v, g) ==
    CASE g.gate = "H" -> Vec(v.z, v.y, v.x)
      [] g.gate = "X" -> Vec(v.x, -v.y, -v.z)
      [] g.gate = "Y" -> Vec(-v.x, v.y, -v.z)
      [] g.gate = "Z" -> Vec(-v.x, -v.y, v.z)
      [] g.gate = "S" -> RotateZ(v, Div(PI, 2 * Scale))
      [] g.gate = "T" -> RotateZ(v, Div(PI, 4 * Scale))
      [] g.gate = "CNOT" ->
            Vec(Mul(v.x, (7 * Scale) \div 10), Mul(v.y, (7 * Scale) \div 10),
                Mul(v.z, (7 * Scale) \div 10))
      [] OTHER -> v

\* applyGate of QasmVisualizer
applyGateBug(v, g) ==
    CASE g.gate = "H" -> Vec(v.z, v.y, -v.x)
      [] g.gate = "X" -> Vec(v.x, -v.y, -v.z)
      [] g.gate = "Y" -> Vec(-v.x, v.y, -v.z)
      [] g.gate = "Z" -> Vec(-v.x, -v.y, v.z)
      [] OTHER -> v

applyGate(v, g) ==
    CASE g.gate = "H" -> Vec(v.z, v.y, v.x)
      [] g.gate = "X" -> Vec(v.x, -v.y, -v.z)
      [] g.gate = "Y" -> Vec(-v.x, v.y, -v.z)
      [] g.gate = "Z" -> Vec(-v.x, -v.y, v.z)
      [] g.gate = "S" -> RotateZ(v, Div(PI, 2 * Scale))
      [] g.gate = "T" -> RotateZ(v, Div(PI, 4 * Scale))
      [] OTHER -> v

\* applyDecoherence (GateBuilder and QiskitVisualizer, the same text)
applyDecoherence(v, amount) ==
    LET factor == Scale - amount
        half == Div(amount, 2 * Scale)
    IN Vec(Mul(v.x, factor), Mul(v.y, factor), Mul(v.z, Scale - half) + half)

\* const L = Math.sqrt(x ** 2 + y ** 2 + z ** 2)
blen(v) == Sqrt(Len2(v))

\* v.x /= L; v.y /= L; v.z /= L
Scaled(v, L) == Vec(Div(v.x, L), Div(v.y, L), Div(v.z, L))

\* if (L > 1) { ... }   (GateBuilder, QiskitVisualizer)
RenormAbove1(v) == IF blen(v) > Scale THEN Scaled(v, blen(v)) ELSE v

\* if (L > 0) { ... }   (QasmVisualizer)
RenormAbove0(v) == IF blen(v) > 0 THEN Scaled(v, blen(v)) ELSE v

\* The body of the stepping loop of each page for one gate.
StepGate(page, v, g, amount) ==
    CASE page = "builder" ->
            RenormAbove1(applyDecoherence(applyGateBuilder(v, g), amount))
      [] page = "json" ->
            IF QubitOr0(g) = 0 \/ g.target = 0
            THEN RenormAbove1(applyDecoherence(applyGateToBloch(v, g), amount))
            ELSE v
      [] page = "qasm" ->
            IF QubitOr0(g) = 0 /\ g.gate # "M"
            THEN RenormAbove0(applyGate(v, g))
            ELSE v

\* the loop over the first k gates
RECURSIVE RunGates(_, _, _, _, _)
RunGates(page, v0, gates, k, amount) ==
    IF k <= 0 THEN v0
    ELSE StepGate(page, RunGates(page, v0, gates, k - 1, amount), gates[k], amount)

\* useMemo: currentState (GateBuilder: i <= activeStep && i < circuit.length) and
\* vec (the visualizers: i < stepIdx && i < gates.length)
Memo(page, gates, step, amount, preset) ==
    IF page = "builder"
    THEN RunGates(page, PresetVector(preset), gates, Min(step + 1, Len(gates)), amount)
    ELSE RunGates(page, Vec(0, 0, Scale), gates, Min(step, Len(gates)), amount)

(***************************************************************************)
(* parseQASM                                                               *)
(***************************************************************************)
LowerCase ==
    <<"a", "b", "c", "d", "e", "f", "g", "h", "i", "j", "k", "l", "m",
      "n", "o", "p", "q", "r", "s", "t", "u", "v", "w", "x", "y", "z">>
UpperCase ==
    <<"A", "B", "C", "D", "E", "F", "G", "H", "I", "J", "K", "L", "M",
      "N", "O", "P", "Q", "R", "S", "T", "U", "V", "W", "X", "Y", "Z">>

\* \w and \s
WordChars ==
    {LowerCase[k] : k \in 1..26} \cup {UpperCase[k] : k \in 1..26} \cup Digits \cup {"_"}
SpaceChars == {" ", "\t"}

\* c.toUpperCase()
ToUpper(c) ==
    IF \E k \in 1..26 : LowerCase[k] = c
    THEN UpperCase[CHOOSE k \in 1..26 : LowerCase[k] = c]
    ELSE c

\* src.split('\n'): the j-th line runs from the j-th line start (position 1
\* or the position after a newline) to the character before the next newline
SplitLines(s) ==
    LET breaks == {k \in DOMAIN s : s[k] = "\n"}
        starts == {1} \cup {k + 1 : k \in breaks}
        StartOf(j) == CHOOSE a \in starts : Cardinality({c \in starts : c < a}) = j - 1
        EndOf(a) == CHOOSE e \in (breaks \cup {Len(s) + 1}) :
                        e >= a /\ \A f \in (breaks \cup {Len(s) + 1}) : f >= a => e <= f
    IN [j \in 1..Cardinality(starts) |-> SubSeq(s, StartOf(j), EndOf(StartOf(j)) - 1)]

\* the position of the last character of s not in set (0 if none)
RECURSIVE LastNotIn(_, _, _)
LastNotIn(s, k, set) ==
    IF k >= 1 /\ s[k] \in set THEN LastNotIn(s, k - 1, set) ELSE k

\* line.trim()
Trim(s) ==
    LET a == SkipWhile(s, 1, SpaceChars)
        b == LastNotIn(s, Len(s), SpaceChars)
    IN IF a > b THEN <<>> ELSE SubSeq(s, a, b)

\* .replace(/;$/, '')
DropSemicolon(s) ==
    IF Len(s) > 0 /\ s[Len(s)] = ";" THEN SubSeq(s, 1, Len(s) - 1) ELSE s

\* line.startsWith(prefix)
StartsWith(s, prefix) ==
    Len(s) >= Len(prefix) /\ SubSeq(s, 1, Len(prefix)) = prefix

\* \w+\[(\d+)\] at position k: whether it matches, where the match ends and
\* the number captured
MatchOperand(s, k) ==
    LET we == SkipWhile(s, k, WordChars)
        de == SkipWhile(s, we + 1, Digits)
        ok == /\ we > k /\ we <= Len(s) /\ s[we] = "["
              /\ de > we + 1 /\ de <= Len(s) /\ s[de] = "]"
    IN [ok |-> ok, end |-> de + 1, num |-> IF ok THEN DigitsValue(s, we + 1, de) ELSE 0]

\* word\s+\w+\[(\d+)\] at position k, word being a literal
MatchAfterWord(s, k, word) ==
    LET ws == k + Len(word)
        os == SkipWhile(s, ws, SpaceChars)
    IN IF ws - 1 <= Len(s) /\ SubSeq(s, k, ws - 1) = word /\ os > ws
       THEN MatchOperand(s, os)
       ELSE [ok |-> FALSE, end |-> 0, num |-> 0]

\* line.match(/measure\s+\w+\[(\d+)\]/): the first position where it matches
MatchMeasure(s) ==
    LET word == <<"m", "e", "a", "s", "u", "r", "e">>
        at == {k \in 1..Len(s) : MatchAfterWord(s, k, word).ok}
    IN IF at = {} THEN [ok |-> FALSE, end |-> 0, num |-> 0]
       ELSE MatchAfterWord(s, CHOOSE k \in at : \A j \in at : k <= j, word)

\* line.match(/^cx\s+\w+\[(\d+)\]\s*,\s*\w+\[(\d+)\]/)
MatchCx(s) ==
    LET first == MatchAfterWord(s, 1, <<"c", "x">>)
        comma == SkipWhile(s, first.end, SpaceChars)
        second == MatchOperand(s, SkipWhile(s, comma + 1, SpaceChars))
        ok == first.ok /\ comma <= Len(s) /\ s[comma] = "," /\ second.ok
    IN [ok |-> ok, qubit |-> first.num, target |-> IF ok THEN second.num ELSE 0]

\* line.match(/^(\w+)\s+\w+\[(\d+)\]/)
MatchGate(s) ==
    LET we == SkipWhile(s, 1, WordChars)
        os == SkipWhile(s, we, SpaceChars)
        operand == MatchOperand(s, os)
        ok == we > 1 /\ os > we /\ operand.ok
    IN [ok |-> ok, word |-> IF ok THEN SubSeq(s, 1, we - 1) ELSE <<>>,
        qubit |-> operand.num]

\* ['H', 'X', 'Y', 'Z', 'S', 'T'].includes(gm[1].toUpperCase())
IsKnownGateBug(word) == Len(word) >= 1

IsKnownGate(word) ==
    Len(word) = 1 /\ ToUpper(word[1]) \in {"H", "X", "Y", "Z", "S", "T"}

\* the lines that parseQASM skips
Headers ==
    {<<"O", "P", "E", "N", "Q", "A", "S", "M">>, <<"i", "n", "c", "l", "u", "d", "e">>,
     <<"/", "/">>, <<"q", "r", "e", "g">>, <<"c", "r", "e", "g">>}

\* The body of the forEach of parseQASM: the gates that one line pushes.
ParseLine(raw) ==
    LET line == DropSemicolon(Trim(raw))
    IN IF line = <<>> \/ \E h \in Headers : StartsWith(line, h) THEN <<>>
       ELSE IF StartsWith(line, <<"m", "e", "a", "s", "u", "r", "e">>)
       THEN IF MatchMeasure(line).ok
            THEN <<Gate("M", MatchMeasure(line).num, -1)>> ELSE <<>>
       ELSE IF MatchCx(line).ok
       THEN <<Gate("CNOT", MatchCx(line).qubit, MatchCx(line).target)>>
       ELSE IF MatchGate(line).ok /\ IsKnownGate(MatchGate(line).word)
       THEN <<Gate(ToUpper(MatchGate(line).word[1]), MatchGate(line).qubit, -1)>>
       ELSE <<>>

RECURSIVE ParseLines(_, _)
ParseLines(lines, k) ==
    IF k = 0 THEN <<>> ELSE ParseLines(lines, k - 1) \o ParseLine(lines[k])

parseQASM(text) == ParseLines(SplitLines(text), Len(SplitLines(text)))

\* nq: 1 for no gates, else Math.max(1, ...gates.map(g =>
\* Math.max((g.qubit ?? 0) + 1, (g.target ?? 0) + 1)))
nqBug(gates) ==
    IF Len(gates) = 0 THEN 1
    ELSE Max(1, CHOOSE m \in 1..1000 :
                   /\ \E k \in DOMAIN gates : m = QubitOr0(gates[k]) + 1
                   /\ \A k \in DOMAIN gates : m >= QubitOr0(gates[k]) + 1)

nq(gates) ==
    IF Len(gates) = 0 THEN 1
    ELSE Max(1, CHOOSE m \in 1..1000 :
                   /\ \E k \in DOMAIN gates :
                         m = Max(QubitOr0(gates[k]) + 1, Max(gates[k].target, 0) + 1)
                   /\ \A k \in DOMAIN gates :
                         m >= Max(QubitOr0(gates[k]) + 1, Max(gates[k].target, 0) + 1))

\* EXAMPLES.bell of QasmVisualizer
QasmBell ==
    <<"O", "P", "E", "N", "Q", "A", "S", "M", " ", "2", ".", "0", ";", "\n",
      "i", "n", "c", "l", "u", "d", "e", " ", "\"", "q", "e", "l", "i", "b",
      "1", ".", "i", "n", "c", "\"", ";", "\n", "q", "r", "e", "g", " ", "q",
      "[", "2", "]", ";", "\n", "c", "r", "e", "g", " ", "c", "[", "2", "]",
      ";", "\n", "h", " ", "q", "[", "0", "]", ";", "\n", "c", "x", " ", "q",
      "[", "0", "]", ",", "q", "[", "1", "]", ";", "\n", "m", "e", "a", "s",
      "u", "r", "e", " ", "q", "[", "0", "]", " ", "-", ">", " ", "c", "[",
      "0", "]", ";", "\n", "m", "e", "a", "s", "u", "r", "e", " ", "q", "[",
      "1", "]", " ", "-", ">", " ", "c", "[", "1", "]", ";">>

\* lines typed into the QASM editor
LineH == <<"h", " ", "q", "[", "0", "]", ";">>
LineT == <<"T", " ", "q", "[", "0", "]", ";">>
LineCx == <<"c", "x", " ", "q", "[", "0", "]", ",", "q", "[", "1", "]", ";">>
LineMeasure == <<"m", "e", "a", "s", "u", "r", "e", " ", "q", "[", "0", "]", " ", "-", ">", " ", "c", "[", "0", "]", ";">>
LineQreg == <<"q", "r", "e", "g", " ", "q", "[", "2", "]", ";">>
LineFoo == <<"f", "o", "o", " ", "q", "[", "0", "]", ";">>
LineU3 == <<"u", "3", "(", "0", ")", " ", "q", "[", "0", "]", ";">>

LineY2 == <<"y", " ", "q", "[", "2", "]", ";">>
LineComment == <<"/", "/", " ", "x", " ", "q", "[", "0", "]", ";">>

QasmLines ==
    {LineH, LineT, LineCx, LineMeasure,
     LineQreg, LineFoo, LineU3, LineY2, LineComment}

\* lines.join('\n')
RECURSIVE JoinLines(_)
JoinLines(lines) ==
    IF Len(lines) = 0 THEN <<>>
    ELSE IF Len(lines) = 1 THEN lines[1]
    ELSE lines[1] \o <<"\n">> \o JoinLines(Tail(lines))

\* seq without its k-th element
RemoveAt(seq, k) == SubSeq(seq, 1, k - 1) \o SubSeq(seq, k + 1, Len(seq))

\* the texts that one edit of the QASM editor makes of text: a line typed
\* over everything, a line added at the end (up to MaxLines lines) or a line
\* deleted
QasmEdits(text) ==
    LET ls == SplitLines(text)
    IN {l : l \in QasmLines}
       \cup {JoinLines(Append(ls, l)) : l \in {x \in QasmLines : Len(ls) < MaxLines}}
       \cup {JoinLines(RemoveAt(ls, k)) : k \in {j \in DOMAIN ls : Len(ls) <= MaxLines}}

(***************************************************************************)
(* QiskitVisualizer: the JSON editor. A text is either malformed (JSON.parse *)
(* throws) or the document it denotes.                                     *)
(***************************************************************************)
Malformed == [wellFormed |-> FALSE, qubits |-> 0, gates |-> <<>>]
Document(qubits, gates) == [wellFormed |-> TRUE, qubits |-> qubits, gates |-> gates]

\* EXAMPLES of QiskitVisualizer
JsonBell == Document(2, <<Gate("H", 0, -1), Gate("CNOT", 0, 1)>>)
JsonXyz == Document(1, <<Gate("X", 0, -1), Gate("Y", 0, -1), Gate("Z", 0, -1)>>)

JsonTexts ==
    {Malformed, JsonBell, JsonXyz,
     Document(1, <<Gate("H", 0, -1), Gate("T", 0, -1), Gate("H", 0, -1)>>),
     Document(1, <<Gate("H", 0, -1), Gate("FOO", 0, -1), Gate("X", 0, -1)>>),
     Document(2, <<Gate("X", 1, -1), Gate("CNOT", 1, 0), Gate("S", -1, -1)>>)}

\* config: JSON.parse(src), or { qubits: 1, gates: [] } with the error set
ParseJson(text) ==
    IF text.wellFormed THEN [error |-> "", gates |-> text.gates]
    ELSE [error |-> "Invalid JSON format", gates |-> <<>>]

(***************************************************************************)
(* The pages as state machines                                             *)
(***************************************************************************)
GATE_IDS == {"H", "X", "Y", "Z", "CNOT"}
PresetStates == {"zero", "plus", "one", "minus"}
GateNoises == {0, Scale \div 20}

\* isPlaying; loop: the for loop of playCircuit is awaiting a timeout, i its
\* index and length the circuit.length it read when Play was clicked
NoPlay == [isPlaying |-> FALSE, loop |-> FALSE, i |-> 0, length |-> 0]

InitCircuit ==
    /\ viz \in {"builder", "json", "qasm"}
    /\ src = (IF viz = "json" THEN JsonBell ELSE IF viz = "qasm" THEN QasmBell ELSE <<>>)
    /\ circuit = (IF viz = "json" THEN ParseJson(JsonBell).gates
                  ELSE IF viz = "qasm" THEN parseQASM(QasmBell) ELSE <<>>)
    /\ stepIdx = (IF viz = "builder" THEN -1 ELSE 0)
    /\ gateNoise = (IF viz = "builder" THEN Scale \div 20
                    ELSE IF viz = "json" THEN Scale \div 50 ELSE 0)
    /\ initPreset = "zero"
    /\ errMsg = ""
    /\ vec = Vec(0, 0, Scale)
    /\ play = NoPlay
    /\ SimIdle
    /\ EvoIdle

\* GateBuilder.addGate
AddGateUpTo(max) ==
    /\ viz = "builder" /\ Len(circuit) < max
    /\ \E id \in GATE_IDS : circuit' = Append(circuit, [id |-> id])
    /\ vec' = Memo(viz, circuit', stepIdx, gateNoise, initPreset)
    /\ UNCHANGED <<viz, play, src, stepIdx, gateNoise, initPreset, errMsg>>
    /\ UNCHANGED <<simVars, evoVars>>

AddGate == AddGateUpTo(MaxGates)

\* GateBuilder.removeGate
RemoveGate ==
    /\ viz = "builder"
    /\ \E k \in DOMAIN circuit : circuit' = RemoveAt(circuit, k)
    /\ stepIdx' = IF stepIdx >= Len(circuit) - 1 THEN stepIdx - 1 ELSE stepIdx
    /\ vec' = Memo(viz, circuit', stepIdx', gateNoise, initPreset)
    /\ UNCHANGED <<viz, play, src, gateNoise, initPreset, errMsg>>
    /\ UNCHANGED <<simVars, evoVars>>

\* GateBuilder: the Next Step button
NextStep ==
    /\ viz = "builder" /\ ~(stepIdx >= Len(circuit) - 1)
    /\ stepIdx' = Min(stepIdx + 1, Len(circuit) - 1)
    /\ vec' = Memo(viz, circuit, stepIdx', gateNoise, initPreset)
    /\ UNCHANGED <<viz, play, src, circuit, gateNoise, initPreset, errMsg>>
    /\ UNCHANGED <<simVars, evoVars>>

\* GateBuilder.resetCircuit
ResetCircuit ==
    /\ viz = "builder"
    /\ stepIdx' = -1
    /\ play' = [play EXCEPT !.isPlaying = FALSE]
    /\ vec' = Memo(viz, circuit, stepIdx', gateNoise, initPreset)
    /\ UNCHANGED <<viz, src, circuit, gateNoise, initPreset, errMsg>>
    /\ UNCHANGED <<simVars, evoVars>>

\* GateBuilder: the initial-state buttons
SetInitPreset ==
    /\ viz = "builder"
    /\ \E p \in PresetStates : initPreset' = p
    /\ stepIdx' = -1
    /\ vec' = Memo(viz, circuit, stepIdx', gateNoise, initPreset')
    /\ UNCHANGED <<viz, play, src, circuit, gateNoise, errMsg>>
    /\ UNCHANGED <<simVars, evoVars>>

\* GateBuilder and QiskitVisualizer: the gate-noise slider
SetGateNoise ==
    /\ viz \in {"builder", "json"}
    /\ \E a \in GateNoises : gateNoise' = a
    /\ vec' = Memo(viz, circuit, stepIdx, gateNoise', initPreset)
    /\ UNCHANGED <<viz, play, src, circuit, stepIdx, initPreset, errMsg>>
    /\ UNCHANGED <<simVars, evoVars>>

\* QiskitVisualizer: the editor's onChange and the memos that follow it
SetSrcJson ==
    /\ viz = "json"
    /\ \E text \in JsonTexts :
         /\ src' = text
         /\ circuit' = ParseJson(text).gates
         /\ errMsg' = ParseJson(text).error
    /\ stepIdx' = 0
    /\ vec' = Memo(viz, circuit', stepIdx', gateNoise, initPreset)
    /\ UNCHANGED <<viz, play, gateNoise, initPreset>>
    /\ UNCHANGED <<simVars, evoVars>>

\* QasmVisualizer: the editor's onChange and the memos that follow it
\* (parseQASM never throws, so the catch branch is not taken)
SetSrcQasm ==
    /\ viz = "qasm"
    /\ \E text \in QasmEdits(src) :
         /\ src' = text
         /\ circuit' = parseQASM(text)
    /\ errMsg' = ""
    /\ stepIdx' = 0
    /\ vec' = Memo(viz, circuit', stepIdx', gateNoise, initPreset)
    /\ UNCHANGED <<viz, play, gateNoise, initPreset>>
    /\ UNCHANGED <<simVars, evoVars>>

\* the visualizers: the execution-step slider (min 0, max gates.length)
SetStepIdx ==
    /\ viz \in {"json", "qasm"}
    /\ \E k \in 0..Len(circuit) : stepIdx' = k
    /\ vec' = Memo(viz, circuit, stepIdx', gateNoise, initPreset)
    /\ UNCHANGED <<viz, play, src, circuit, gateNoise, initPreset, errMsg>>
    /\ UNCHANGED <<simVars, evoVars>>

\* arrayMove(items, oldIndex, newIndex), positions from 1
ArrayMove(items, a, b) ==
    LET rest == RemoveAt(items, a)
    IN SubSeq(rest, 1, b - 1) \o <<items[a]>> \o SubSeq(rest, b, Len(rest))

\* GateBuilder.handleDragEnd: a gate is dropped on another gate
HandleDragEnd ==
    /\ viz = "builder"
    /\ \E a \in DOMAIN circuit, b \in DOMAIN circuit :
          a # b /\ circuit' = ArrayMove(circuit, a, b)
    /\ vec' = Memo(viz, circuit', stepIdx, gateNoise, initPreset)
    /\ UNCHANGED <<viz, play, src, stepIdx, gateNoise, initPreset, errMsg>>
    /\ UNCHANGED <<simVars, evoVars>>

\* GateBuilder: the Clear All button, setCircuit([])
ClearAll ==
    /\ viz = "builder"
    /\ circuit' = <<>>
    /\ vec' = Memo(viz, circuit', stepIdx, gateNoise, initPreset)
    /\ UNCHANGED <<viz, play, src, stepIdx, gateNoise, initPreset, errMsg>>
    /\ UNCHANGED <<simVars, evoVars>>

\* GateBuilder.playCircuit up to its first await (the button is disabled while
\* isPlaying or the circuit is empty); one loop runs at a time
PlayCircuit ==
    /\ viz = "builder" /\ ~play.isPlaying /\ Len(circuit) > 0 /\ ~play.loop
    /\ play' = [isPlaying |-> TRUE, loop |-> TRUE, i |-> 0, length |-> Len(circuit)]
    /\ stepIdx' = -1
    /\ vec' = Memo(viz, circuit, stepIdx', gateNoise, initPreset)
    /\ UNCHANGED <<viz, src, circuit, gateNoise, initPreset, errMsg>>
    /\ UNCHANGED <<simVars, evoVars>>

\* playCircuit resumes after a timeout: setActiveStep(i), and after the last
\* gate setIsPlaying(false)
PlayTimeout ==
    /\ viz = "builder" /\ play.loop
    /\ stepIdx' = play.i
    /\ play' = IF play.i + 1 < play.length
               THEN [play EXCEPT !.i = play.i + 1]
               ELSE NoPlay
    /\ vec' = Memo(viz, circuit, stepIdx', gateNoise, initPreset)
    /\ UNCHANGED <<viz, src, circuit, gateNoise, initPreset, errMsg>>
    /\ UNCHANGED <<simVars, evoVars>>

NextCircuit ==
    \/ AddGate \/ RemoveGate \/ NextStep \/ ResetCircuit \/ SetInitPreset
    \/ SetGateNoise
    \/ SetSrcJson \/ SetSrcQasm \/ SetStepIdx

SpecCircuit == InitCircuit /\ [][NextCircuit]_vars

(***************************************************************************)
(* The gate builder alone, with every way it has to change the circuit and *)
(* the active step.                                                        *)
(***************************************************************************)
MaxBuilderGates == 2

InitBuilder == InitCircuit /\ viz = "builder"

NextBuilder ==
    \/ AddGateUpTo(MaxBuilderGates) \/ RemoveGate \/ NextStep \/ ResetCircuit
    \/ SetInitPreset \/ HandleDragEnd \/ ClearAll \/ PlayCircuit \/ PlayTimeout

SpecBuilder == InitBuilder /\ [][NextBuilder]_vars

(***************************************************************************)
(* Claims about the simulators (checked under SpecSim)                     *)
(***************************************************************************)
RECURSIVE SumOver(_, _)
SumOver(c, keys) ==
    IF keys = {} THEN 0
    ELSE LET k == CHOOSE x \in keys : TRUE IN c[k] + SumOver(c, keys \ {k})

SumCounts(c) == SumOver(c, DOMAIN c)

KeptRounds == {k \in DOMAIN played : played[k].aliceBasis = played[k].bobBasis}
ErrorRounds == {k \in KeptRounds : played[k].bobBit # played[k].aliceBit}

\* C1: BB84 without an eavesdropper counts no error in any sifted round: the
\* error counter stays 0, no trace row has error = TRUE, and the returned
\* errorRate is exactly 0, whatever the bit and basis draws were.
C1_NoEveNoError ==
    (fn = "runBb84" /\ ~withEve) =>
        /\ errors = 0
        /\ \A k \in DOMAIN trace : trace[k].error = FALSE
        /\ \A k \in DOMAIN played : played[k].error = FALSE
        /\ pc = "done" => result.errorRate.num = 0

C1_Witness ==
    /\ fn = "runBb84" /\ ~withEve /\ pc = "done" /\ n = MaxRounds
    /\ sifted >= 2
    /\ \E k \in DOMAIN trace : ~trace[k].keep

\* C3: BB84 sifting and error accounting: a round is kept iff Alice's basis
\* equals Bob's, it is an error iff it is kept and Bob's bit differs from
\* Alice's bit, siftedKeyLength is the number of kept rounds (between 0 and
\* rounds), and errorRate is errors/sifted when sifted > 0 and 0 otherwise,
\* hence in [0,1].
C3_SiftingAccounting ==
    fn = "runBb84" =>
        /\ \A k \in DOMAIN played :
              /\ played[k].keep <=> (played[k].aliceBasis = played[k].bobBasis)
              /\ played[k].error <=>
                    (played[k].keep /\ played[k].bobBit # played[k].aliceBit)
        /\ sifted = Cardinality(KeptRounds)
        /\ errors = Cardinality(ErrorRounds)
        /\ pc = "done" =>
              /\ result.siftedKeyLength = Cardinality(KeptRounds)
              /\ 0 <= result.siftedKeyLength /\ result.siftedKeyLength <= n
              /\ Cardinality(KeptRounds) > 0 =>
                    result.errorRate = [num |-> Cardinality(ErrorRounds),
                                        den |-> Cardinality(KeptRounds)]
              /\ Cardinality(KeptRounds) = 0 => result.errorRate.num = 0
              /\ 0 <= result.errorRate.num
              /\ result.errorRate.num <= result.errorRate.den
              /\ result.errorRate.den > 0

C3_Witness ==
    /\ fn = "runBb84" /\ withEve /\ pc = "done" /\ n = MaxRounds
    /\ result.siftedKeyLength = 2
    /\ result.errorRate = [num |-> 1, den |-> 2]
    /\ \E k \in DOMAIN played :
          played[k].keep /\ played[k].eveBasis # played[k].aliceBasis /\ ~played[k].error

\* C5: Bell and GHZ samplers: only the all-agreeing keys ("00"/"11", resp.
\* "000"/"111") can be nonzero, every other key is exactly 0, and the counts
\* of the returned map sum to exactly the shot count N.
C5_SamplerCounts ==
    /\ fn = "simulateBell" =>
          /\ DOMAIN counts = BellKeys
          /\ \A k \in BellKeys \ {"00", "11"} : counts[k] = 0
          /\ counts["00"] + counts["11"] = i
          /\ pc = "done" =>
                /\ SumCounts(result.counts) = n
                /\ \A k \in BellKeys \ {"00", "11"} : result.counts[k] = 0
    /\ fn = "simulateGhz" =>
          /\ DOMAIN counts = GhzKeys
          /\ \A k \in GhzKeys \ {"000", "111"} : counts[k] = 0
          /\ counts["000"] + counts["111"] = i
          /\ pc = "done" =>
                /\ SumCounts(result.counts) = n
                /\ \A k \in GhzKeys \ {"000", "111"} : result.counts[k] = 0

C5_Witness ==
    /\ fn = "simulateGhz" /\ pc = "done" /\ n = MaxShots
    /\ result.counts["000"] >= 2 /\ result.counts["111"] >= 2

(***************************************************************************)
(* Claims about the steppers (SpecStepper) and the hooks (SpecEvolution,   *)
(* SpecHistory)                                                            *)
(***************************************************************************)
\* C2: purity bound: from every starting vector of length <= 1, under every
\* NoiseParams with strengths in [0,1], the vector has length <= 1 after any
\* number of consecutive stepper calls, within one unit of the last place.
C2_PurityBound ==
    hook \in {"raf", "interval"} => Len2(state) <= (Scale + 1) * (Scale + 1)

\* several steps of amplitude damping with precession have left an oblique
\* vector on the unit sphere, where only the safety clamp holds it
C2_Witness ==
    /\ hook = "raf" /\ calls >= 2
    /\ noise.amplitudeDamping > 0
    /\ Len2(state) >= Scale * Scale
    /\ state.x # 0 /\ state.z # 0

\* C6: history capacity: after any number of evolution ticks the history holds
\* at most MAX_HISTORY (600) snapshots, and they are exactly the most recent
\* ones, in insertion order.
C6_HistoryCapacity ==
    /\ Len(history) <= MAX_HISTORY
    /\ history = SliceLast(log, MAX_HISTORY)

\* C7: scrubToIndex(i), for every integer i, sets the current vector to
\* history[clamp(i, 0, len-1)] and leaves the history unchanged.
C7_ScrubClamps ==
    [][op'.name = "scrubToIndex" =>
          /\ history' = history
          /\ state' = history[clamp(op'.index, 0, Len(history) - 1) + 1]]_vars

\* C8: after every call of scrubToIndex, whatever the index and the previous
\* running state, evolution is paused.
C8_ScrubPauses == op.name = "scrubToIndex" => ~running

\* C9: resetTo(v) leaves the current vector equal to v and the history equal to
\* <<v>>, and the first tick after it steps for no more than the wall time
\* elapsed since the reset.
C9_ResetTo ==
    /\ op.name = "resetTo" => (state = op.v /\ history = <<op.v>>)
    /\ (op.name = "tick" /\ op.sinceReset >= 0) =>
          op.steps <= StepsFor(Elapsed(0, op.sinceReset))

\* the stepper calls the next tick makes if it comes gap ms from now (a paused
\* hook ticks again only after a start, which begins a new measurement)
NextTickSteps(h, run, last, t, gap) ==
    IF h = "raf" /\ run THEN LoopSteps(last, t + gap) ELSE 1

\* C10: start while running and pause while paused are no-ops: they change
\* neither the running flag, the current vector, the history, nor the stepping
\* of the ticks that follow.
C10_StartPauseIdempotent ==
    [][(op'.name = "setRunning" /\ op'.b = running) =>
          /\ running' = running
          /\ state' = state
          /\ history' = history
          /\ hook = "interval" => lastTs' = lastTs
          /\ \A gap \in FrameGaps :
                NextTickSteps(hook, running', lastTs', now', gap)
                    = NextTickSteps(hook, running, lastTs, now, gap)]_vars

(***************************************************************************)
(* Claims about the routes (SpecApi) and the BB84 trace (SpecTrace)        *)
(***************************************************************************)
\* the whole text of v is a decimal literal
IsNumeric(v) ==
    /\ v.t \in {"number", "string"}
    /\ LET r == FloatScan(v.text)
       IN r.ok /\ SkipWhile(v.text, r.end, WhiteSpace) > Len(v.text)

\* its value, in units of 1 / Scale
NumericValue(v) == FloatScan(v.text).v

IsInteger(v) == IsNumeric(v) /\ NumericValue(v) % Scale = 0

InRange(v, lo, hi) == lo * Scale <= NumericValue(v) /\ NumericValue(v) <= hi * Scale

Given(v) == v.t \notin {"undefined", "null"}

\* C11: POST /api/experiments/bell and /ghz answer 400 for every request whose
\* shots is not an integer or is outside [1,10000], and run the sampler and
\* return its count map only for an integer shots in range.
C11_ShotsValidated ==
    req.route \in {"bell", "ghz"} =>
        LET shots == req.body.shots
            valid == IsInteger(shots) /\ InRange(shots, 1, 10000)
        IN Given(shots) =>
              /\ ~valid => (res.status = 400 /\ fn = "none")
              /\ valid => (res.status # 400 /\ n * Scale = NumericValue(shots))
              /\ res.status = 200 =>
                    /\ res.body.kind = "counts"
                    /\ SumCounts(res.body.counts) * Scale = NumericValue(shots)

\* C12: POST /api/experiments/bb84 answers 400 whenever rounds is outside
\* [1,5000]; otherwise the summary's rounds field equals the requested rounds
\* and the run had an eavesdropper iff the request's withEve is the boolean true.
C12_RoundsValidated ==
    req.route = "bb84" =>
        LET rounds == req.body.rounds
        IN IsNumeric(rounds) =>
              /\ ~InRange(rounds, 1, 5000) => res.status = 400
              /\ InRange(rounds, 1, 5000) =>
                    /\ res.status # 400
                    /\ withEve <=> (req.body.withEve = JsTrue)
                    /\ \A k \in DOMAIN played :
                          (played[k].eveBasis # "-") <=> (req.body.withEve = JsTrue)
              /\ res.status = 200 => res.body.rounds * Scale = NumericValue(rounds)

\* C13: POST /api/experiments/stern-gerlach answers 400 whenever angleDegrees
\* is not a number (absent, null, non-numeric or partly numeric text), and
\* otherwise returns outcome "up" or "down" with probUp and probDown.
C13_AngleValidated ==
    req.route = "stern-gerlach" =>
        /\ ~IsNumeric(req.body.angleDegrees) => res.status = 400
        /\ IsNumeric(req.body.angleDegrees) =>
              /\ res.status = 200
              /\ res.body.outcome \in {"up", "down"}
              /\ res.body.probUp + res.body.probDown = Scale

Abs(a) == IF a >= 0 THEN a ELSE -a

\* C20: simulateSternGerlach returns probUp = cos^2(theta/2) and probDown =
\* 1 - probUp, both in [0,1]; probUp is 1 at 0 degrees, 0.5 at 90 and 0 at
\* 180 (within one unit of the last place), and the outcome is "up" exactly
\* when the uniform draw is below probUp.
C20_SternGerlach ==
    (fn = "simulateSternGerlach" /\ IsNumeric(req.body.angleDegrees)) =>
        LET a == NumericValue(req.body.angleDegrees)
        IN /\ result.probDown = Scale - result.probUp
           /\ 0 <= result.probUp /\ result.probUp <= Scale
           /\ 0 <= result.probDown /\ result.probDown <= Scale
           \* cos^2(theta/2) = (1 + cos(theta)) / 2
           /\ Abs(a) <= 120 * Scale =>
                 Abs(2 * result.probUp - Scale - Cos(ThetaRad(a))) <= 2
           /\ a = 0 => result.probUp = Scale
           /\ a = 90 * Scale => Abs(result.probUp - Scale \div 2) <= 1
           /\ a = 180 * Scale => result.probUp <= 1
           /\ (result.outcome = "up") <=> (played[1].draw < result.probUp)

\* at 90 degrees a draw just below one half gives "up"
C20_Witness ==
    /\ fn = "simulateSternGerlach"
    /\ req.body.angleDegrees = JsNumber(<<"9", "0">>)
    /\ played[1].draw = Scale \div 2 - 1
    /\ result.outcome = "up"
    /\ result.probDown > 0

(***************************************************************************)
(* Claims about the circuit pages (SpecCircuit)                            *)
(***************************************************************************)
\* equal within one unit of the last place in every component
Close(v, w) == Abs(v.x - w.x) <= 1 /\ Abs(v.y - w.y) <= 1 /\ Abs(v.z - w.z) <= 1

\* the gate with symbol id on qubit 0, as each page represents it
GateOf(page, id) == IF page = "builder" THEN [id |-> id] ELSE Gate(id, 0, -1)

\* C15: gate involution: with zero gate noise, X twice, Z twice and H twice
\* return the vector they were applied to, in every gate applier (gate
\* builder, JSON visualizer, QASM visualizer), the decoherence and
\* renormalisation pass after each gate included.
C15_GateInvolution ==
    (viz \in {"builder", "json", "qasm"} /\ gateNoise = 0) =>
        \A id \in {"X", "Z", "H"} :
            Close(StepGate(viz, StepGate(viz, vec, GateOf(viz, id), 0),
                           GateOf(viz, id), 0),
                  vec)

\* the QASM page shows the vector after an H and a T gate, which has three
\* components that the gates move
C15_Witness ==
    /\ viz = "qasm" /\ gateNoise = 0 /\ stepIdx = 2 /\ Len(circuit) >= 2
    /\ circuit[1].gate = "H" /\ circuit[2].gate = "T"
    /\ vec.x # 0 /\ vec.y # 0
    /\ StepGate(viz, vec, Gate("H", 0, -1), 0) # vec

\* the gate symbols of CircuitGate
CircuitGateSymbols ==
    {"H", "X", "Y", "Z", "S", "T", "CNOT", "CX", "M", "measure", "Rx", "Ry", "Rz"}

\* C16: a structured (JSON gate-list) circuit containing a gate whose symbol
\* is outside the enumerated gate set is rejected with a visible parse error
\* and is not stepped through.
C16_UnknownGateRejected ==
    (/\ viz = "json"
     /\ src.wellFormed
     /\ \E k \in DOMAIN src.gates : src.gates[k].gate \notin CircuitGateSymbols)
        => (errMsg # "" /\ circuit = <<>>)

\* the instruction word of a line, in lower case
ToLower(c) ==
    IF \E k \in 1..26 : UpperCase[k] = c
    THEN LowerCase[CHOOSE k \in 1..26 : UpperCase[k] = c]
    ELSE c

Mnemonic(raw) ==
    LET line == Trim(raw)
        word == SubSeq(line, 1, SkipWhile(line, 1, WordChars) - 1)
    IN [k \in DOMAIN word |-> ToLower(word[k])]

\* a line is an unrecognized instruction when it starts with a word that is
\* neither a supported gate nor measure nor a declaration
Unrecognized(raw) ==
    /\ Mnemonic(raw) # <<>>
    /\ Mnemonic(raw) \notin
          {<<"h">>, <<"x">>, <<"y">>, <<"z">>, <<"s">>, <<"t">>, <<"c", "x">>,
           <<"m", "e", "a", "s", "u", "r", "e">>, <<"o", "p", "e", "n", "q", "a", "s", "m">>,
           <<"i", "n", "c", "l", "u", "d", "e">>, <<"q", "r", "e", "g">>,
           <<"c", "r", "e", "g">>}

NoChannel(ns) ==
    ns.depolarizing = 0 /\ ns.phaseFlip = 0 /\ ns.bitFlip = 0 /\ ns.amplitudeDamping = 0

\* C18: zero-noise fixed point: with all four channel strengths 0 a stepper
\* call only precesses the vector about z: z and the vector length are the
\* same after any number of steps as at the start.  The fixed-point rotation
\* rounds each step to the last place, so "the same" is up to one unit of the
\* last place per step made; the interval stepper, which does not precess,
\* leaves the vector exactly as it was.
C18_ZeroNoise ==
    (hook \in {"raf", "interval"} /\ NoChannel(noise)) =>
        /\ Abs(state.z - history[1].z) <= calls
        /\ Abs(blen(state) - blen(history[1])) <= calls
        /\ hook = "interval" => state = history[1]

\* the raf stepper has turned an oblique vector about z
C18_Witness ==
    /\ hook = "raf" /\ NoChannel(noise) /\ calls = MaxSteps
    /\ state.z # 0 /\ history[1].x # 0
    /\ state.x # history[1].x /\ state.y # history[1].y

\* C19: monotone decay: with depolarizing > 0 and the other channel strengths
\* 0, the vector length does not increase from one stepper call to the next.
C19_MonotoneDecay ==
    [][(/\ hook \in {"raf", "interval"}
        /\ noise.depolarizing > 0 /\ noise.phaseFlip = 0 /\ noise.bitFlip = 0
        /\ noise.amplitudeDamping = 0
        /\ calls' = calls + 1)
           => blen(state') <= blen(state) + 0]_vars

\* several depolarizing steps have shortened a vector that is still nonzero
C19_Witness ==
    /\ hook = "raf" /\ calls >= 3
    /\ noise.depolarizing > 0 /\ noise.phaseFlip = 0 /\ noise.bitFlip = 0
    /\ noise.amplitudeDamping = 0
    /\ blen(state) < blen(history[1]) /\ blen(state) > 0

(***************************************************************************)
(* Further claims about the hooks (SpecEvolution)                          *)
(***************************************************************************)
\* the last call was a scrubToIndex that showed a history entry
Scrubbed ==
    /\ op.name = "scrubToIndex"
    /\ hook = "raf" => (op.index >= 0 /\ op.index < Len(history))

\* C21: no stepping while paused: from the moment evolution is paused (by
\* setRunning(false) or by scrubToIndex) until it is started again, no
\* scheduled tick runs a stepper call, appends to history or changes the
\* current vector; a tick that follows a scrubToIndex cannot overwrite the
\* scrubbed vector.
C21_NoStepWhilePaused ==
    [][(~running \/ Scrubbed) => op'.name # "tick"]_vars

(***************************************************************************)
(* Claim about non-finite numbers (SpecGuard)                              *)
(***************************************************************************)
\* C22: non-finite guard: a stepper call whose input vector or noise
\* parameters (speed included) hold NaN or +-Infinity is rejected or clamped:
\* the vector a call returns, which becomes the current vector and the newest
\* history entry, has finite components only.
C22_NonFiniteGuard ==
    calls >= 1 => (FiniteVec(state) /\ FiniteVec(history[Len(history)]))

(***************************************************************************)
(* Claims about the scheduling of stepper calls (SpecEvolution)            *)
(***************************************************************************)
\* C23: history is appended on every evolution step: each stepper call of a
\* tick appends exactly one snapshot of its result, so a tick makes as many
\* stepper calls as it appends entries and two consecutive history entries are
\* exactly one step of dt apart.
C23_AppendEveryStep ==
    [][op'.name = "tick" =>
          /\ Len(log') - Len(log) = op'.steps
          /\ hook = "raf" => state' = applyNoiseStep(state, noise, BASE_DT)]_vars

\* C24: step cadence: the number of stepper calls of a tick is chosen so that
\* the simulated time advanced (calls x dt) is the wall-clock time elapsed
\* since the previous tick (or since start / resume), up to the rounding to a
\* whole number of steps, for every elapsed time; the interval hook makes one
\* call per tick period.
C24_StepCadence ==
    [][op'.name = "tick" =>
          IF hook = "raf"
          THEN 2 * Abs(op'.steps * BASE_DT - (now' - now) * (Scale \div 1000)) <= BASE_DT
          ELSE op'.steps = 1 /\ now' - lastTs = TickMs(noise)]_vars

(***************************************************************************)
(* Further claim about BB84 (SpecSim)                                      *)
(***************************************************************************)
\* C25: BB84 eavesdropper rule: with the eavesdropper enabled the qubit is
\* disturbed only when Eve's basis differs from Alice's: in a round where
\* Eve's basis equals Alice's, Bob measuring in that basis reads Alice's bit,
\* so a sifted round is an error only if eveBasis # aliceBasis.
C25_EveRule ==
    (fn = "runBb84" /\ withEve) =>
        \A k \in DOMAIN played :
            /\ played[k].error => (played[k].keep /\ played[k].eveBasis # played[k].aliceBasis)
            /\ (played[k].eveBasis = played[k].aliceBasis /\ played[k].keep)
                  => played[k].bobBit = played[k].aliceBit

\* a finished run with Eve holds an erroneous sifted round and a clean sifted
\* round in which Eve chose Alice's basis
C25_Witness ==
    /\ fn = "runBb84" /\ withEve /\ pc = "done"
    /\ \E k \in DOMAIN played : played[k].error /\ played[k].eveBasis # played[k].aliceBasis
    /\ \E k \in DOMAIN played :
          played[k].keep /\ ~played[k].error /\ played[k].eveBasis = played[k].aliceBasis

(***************************************************************************)
(* Further claims about the circuit pages (SpecCircuit)                    *)
(***************************************************************************)
\* a CNOT with the tracked qubit 0 as control, as each page represents it
CnotOf(page) == IF page = "builder" THEN [id |-> "CNOT"] ELSE Gate("CNOT", 0, 1)

\* C26: CNOT attenuation: applying a CNOT in which the tracked qubit 0 takes
\* part makes a nonzero tracked vector shorter, in every circuit tool (JSON
\* visualizer, QASM visualizer, gate builder); stated for the gate alone,
\* without gate noise.
C26_CnotAttenuates ==
    (viz \in {"builder", "json", "qasm"} /\ blen(vec) > 0) =>
        blen(StepGate(viz, vec, CnotOf(viz), 0)) < blen(vec)

\* the vector after a gate and before the decoherence pass
AfterGate(page, v, id) ==
    IF page = "builder" THEN applyGateBuilder(v, GateOf(page, id))
    ELSE applyGateToBloch(v, GateOf(page, id))

\* C27: per-gate decoherence pass: in the interactive builders (gate builder,
\* JSON visualizer) the pass after a gate scales x, y and z by one common
\* factor determined by the gate-noise strength, and the vector is then
\* renormalised only if its length exceeds 1, so the displayed vector has
\* length <= 1.
C27_DecoherencePass ==
    viz \in {"builder", "json"} =>
        /\ blen(vec) <= Scale
        /\ \E f \in 0..Scale :
              \A id \in {"H", "X", "Z"} :
                 LET w == AfterGate(viz, vec, id)
                 IN /\ applyDecoherence(w, gateNoise) = Vec(Mul(w.x, f), Mul(w.y, f), Mul(w.z, f))
                    /\ StepGate(viz, vec, GateOf(viz, id), gateNoise)
                          = RenormAbove1(applyDecoherence(w, gateNoise))

\* the positions of the "[" of a line, and the number written after the k-th
Brackets(s) == {p \in DOMAIN s : s[p] = "["}
IndexAfter(s, k) ==
    LET p == CHOOSE q \in Brackets(s) : Cardinality({j \in Brackets(s) : j < q}) = k - 1
    IN DigitsValue(s, p + 1, SkipWhile(s, p + 1, Digits))

\* the gates the OpenQASM subset gives to one line
ExpectedGates(raw) ==
    LET m == Mnemonic(raw)
    IN IF m \in {<<"h">>, <<"x">>, <<"y">>, <<"z">>, <<"s">>, <<"t">>}
       THEN <<Gate(ToUpper(m[1]), IndexAfter(raw, 1), -1)>>
       ELSE IF m = <<"c", "x">>
       THEN <<Gate("CNOT", IndexAfter(raw, 1), IndexAfter(raw, 2))>>
       ELSE IF m = <<"m", "e", "a", "s", "u", "r", "e">>
       THEN <<Gate("M", IndexAfter(raw, 1), -1)>>
       ELSE <<>>

RECURSIVE ExpectedCircuit(_)
ExpectedCircuit(lines) ==
    IF lines = <<>> THEN <<>>
    ELSE ExpectedGates(Head(lines)) \o ExpectedCircuit(Tail(lines))

\* max(qubit index, target index) + 1 over the gates, at least 1
ExpectedQubits(gates) ==
    LET idx == {gates[k].qubit : k \in DOMAIN gates} \cup {gates[k].target : k \in DOMAIN gates}
    IN IF \A j \in idx : j < 0 THEN 1
       ELSE (CHOOSE j \in idx : \A l \in idx : j >= l) + 1

\* C28: QASM parsing of recognised lines: parseQASM emits the gates in line
\* order: an h|x|y|z|s|t q[i] line gives that gate on qubit i, a cx q[i],q[j]
\* line a CNOT with qubit i and target j, a measure q[i] line M on qubit i;
\* blank, comment, OPENQASM, include, qreg and creg lines give nothing; the
\* qubit count is max(qubit index, target index) + 1 over the gates, at least 1.
C28_QasmParse ==
    viz = "qasm" =>
        /\ circuit = ExpectedCircuit(SplitLines(src))
        /\ nq(circuit) = ExpectedQubits(circuit)

\* a text with a comment line, a cx line and a gate on qubit 2
C28_Witness ==
    /\ viz = "qasm"
    /\ Len(circuit) = 2
    /\ \E k \in DOMAIN SplitLines(src) : SplitLines(src)[k] = LineComment
    /\ circuit[1] = Gate("CNOT", 0, 1)
    /\ circuit[2] = Gate("Y", 2, -1)
    /\ nq(circuit) = 3

\* C30: the gate-builder step index stays in range: after any sequence of add
\* gate, remove gate, Clear All, drag-reorder, Next Step, Play Circuit (gate
\* edits during playback included), Reset Walk and initial-state changes,
\* -1 <= activeStep <= circuit.length - 1.
C30_StepInRange ==
    viz = "builder" => (-1 <= stepIdx /\ stepIdx <= Len(circuit) - 1)


\* the request of client c, once sent
RequestOf(c) == CHOOSE r \in net.sent : r.id = c

\* C29: simulator isolation under concurrency: however the requests of several
\* clients to the bell, ghz, bb84 and stern-gerlach routes interleave, every
\* client gets at most one response, and that response is made from its own
\* request and its own random draws only: a count map sums to the request's
\* own shots, a BB84 summary reports the request's own rounds and the trace of
\* its own rounds, a Stern-Gerlach result has the probabilities of its own angle.
C29_Isolation ==
    /\ \A a, b \in net.responses : a.id = b.id => a = b
    /\ \A rp \in net.responses :
         LET rq == RequestOf(rp.id)
             body == rp.res.body
         IN rp.res.status = 200 =>
              CASE rq.route \in {"bell", "ghz"} ->
                     /\ body.kind = "counts"
                     /\ DOMAIN body.counts = (IF rq.route = "bell" THEN BellKeys ELSE GhzKeys)
                     /\ SumCounts(body.counts) = ParseShots(rq.body).v
                [] rq.route = "bb84" ->
                     /\ body.kind = "bb84"
                     /\ body.rounds = ParseRounds(rq.body).v
                     /\ Len(body.trace) = Min(body.rounds, TRACE_CAP)
                     /\ \A k \in DOMAIN body.trace :
                           body.trace[k] = rp.draws[k] /\ body.trace[k].id = k
                     /\ body.siftedKeyLength =
                           Cardinality({k \in DOMAIN rp.draws : rp.draws[k].keep})
                     /\ (~StrictlyTrue(rq.body.withEve)) =>
                           \A k \in DOMAIN body.trace : body.trace[k].eveBasis = "-"
                [] rq.route = "stern-gerlach" ->
                     body = simulateSternGerlach(ParseAngle(rq.body).v, rp.draws[1].draw)

\* both clients have their answers: a Bell count map of two shots and another
\* count map or BB84 summary computed while the first request was waiting
C29_Witness ==
    /\ Cardinality(net.responses) = 2
    /\ \E a, b \in net.responses :
         /\ a.id # b.id
         /\ RequestOf(a.id).route = "bell" /\ a.res.status = 200
         /\ SumCounts(a.res.body.counts) = 2
         /\ RequestOf(b.id).route \in {"bell", "ghz", "bb84"} /\ b.res.status = 200
         /\ RequestOf(b.id).body # RequestOf(a.id).body

====
